---- MODULE Spec2Model ----
(***************************************************************************)
(* Ladder: CAD import for Blender through gmsh.                            *)
(*                                                                         *)
(* The module models src/ladder/__init__.py:                               *)
(*   - GmshManager          (availability cache, get_model_info,           *)
(*                           convert_to_stl) as operators over an engine   *)
(*                           whose calls may raise;                        *)
(*   - ImportProgress       (the module-level singleton import_progress);  *)
(*   - LADDER_OT_import_cad (execute / modal / _process_current_file /     *)
(*                           _finish) as a state machine driven by the     *)
(*                           window manager's TIMER and ESC events.        *)
(*                                                                         *)
(* Floats are kept exact as integers: lengths in tenths of a model unit,   *)
(* unit scales in micrometres per unit.                                    *)
(***************************************************************************)
EXTENDS Integers, Sequences, FiniteSets, TLC

(***************************************************************************)
(* Bounds of the exploration.                                              *)
(***************************************************************************)
MaxFiles == 2        \* files the user can select for one batch
MaxNewObjects == 2   \* objects one STL import can add to the scene
MaxEnts == 2         \* entities of a CAD model
MaxTotal == 2        \* files of a batch tracked by a directly driven ImportProgress
MaxApiCalls == 3     \* direct calls of the availability API in one session

(***************************************************************************)
(* Generic helpers.                                                        *)
(***************************************************************************)
Range(s) == {s[i] : i \in 1..Len(s)}

SeqsUpTo(S, n) == UNION {[1..k -> S] : k \in 0..n}

RECURSIVE SelectIds(_, _)
\* the members of the id set S as an ascending sequence, restricted to ids >= lo
SelectIds(S, lo) ==
    IF \A x \in S : x < lo THEN <<>>
    ELSE IF lo \in S THEN <<lo>> \o SelectIds(S, lo + 1)
    ELSE SelectIds(S, lo + 1)

(***************************************************************************)
(* Constants of the program.                                               *)
(***************************************************************************)
\* UNIT_SCALES, in micrometres per unit (1.0 metre = 1000000)
UNIT_SCALES ==
    [MICROMETERS |-> 1, MILLIMETERS |-> 1000, CENTIMETERS |-> 10000,
     METERS |-> 1000000, INCHES |-> 25400, FEET |-> 304800]

\* the values of the source_unit enum property
SourceUnits ==
    {"AUTO", "MICROMETERS", "MILLIMETERS", "CENTIMETERS", "METERS", "INCHES", "FEET"}

\* the values of the mesh_quality enum property
MeshQualities == {"VERY_COARSE", "COARSE", "NORMAL", "FINE", "VERY_FINE", "CUSTOM"}

\* MESH_QUALITY_PRESETS: (min, max) element sizes, in thousandths of a model unit
MESH_QUALITY_PRESETS ==
    [VERY_COARSE |-> <<1000, 50000>>, COARSE |-> <<500, 20000>>, NORMAL |-> <<100, 10000>>,
     FINE |-> <<50, 5000>>, VERY_FINE |-> <<10, 1000>>]

\* the values of the set_origin enum property
OriginModes == {"NONE", "GEOMETRY", "BOUNDS", "CURSOR", "WORLD"}

\* the world origin (0, 0, 0)
WorldOrigin == <<0, 0, 0>>

\* max_dim thresholds of the unit estimate, in tenths of a model unit
UNIT_THRESHOLD_MM == 10000
UNIT_THRESHOLD_CM == 100
UNIT_THRESHOLD_M == 1

(***************************************************************************)
(* The CAD model behind an input path, as the engine sees it.              *)
(*   cad     : the suffix is one of .step .stp .iges .igs .brep .brp       *)
(*   ents    : gmsh.model.getEntities(), each with its dimension and its   *)
(*             entity name ("" when the entity is unnamed)                 *)
(*   max_dim : largest bounding-box extent, in tenths of a model unit      *)
(* An engine run is described by failAt, the position in the planned call  *)
(* sequence at which the engine raises (0: no call raises), and finFails,  *)
(* whether gmsh.finalize() raises (and then leaves the session open).      *)
(***************************************************************************)
PartNames == {"a-1", "b c"}

Entities ==
    {[dim |-> d, name |-> ""] : d \in 0..3} \cup {[dim |-> 3, name |-> n] : n \in PartNames}

MaxDims == {0, 1, 2, 100, 101, 10000, 10001}

Models == [cad : BOOLEAN, ents : SeqsUpTo(Entities, MaxEnts), max_dim : MaxDims]

CountDim(ents, d) == Cardinality({i \in 1..Len(ents) : ents[i].dim = d})

RECURSIVE DedupNames(_, _)
\* `if name and name not in info['part_names']: append`, folded over names
DedupNames(names, acc) ==
    IF names = <<>> THEN acc
    ELSE LET n == Head(names) IN
         DedupNames(Tail(names),
                    IF n # "" /\ n \notin Range(acc) THEN Append(acc, n) ELSE acc)

RECURSIVE AllNames(_, _)
\* `if name: part_names.append(name)`, folded over names
AllNames(names, acc) ==
    IF names = <<>> THEN acc
    ELSE LET n == Head(names) IN
         AllNames(Tail(names), IF n # "" THEN Append(acc, n) ELSE acc)

EntityNames(ents, k) == [i \in 1..k |-> ents[i].name]

\* the four geometry-repair options
HealingOptions ==
    <<"setNumber:Geometry.OCCFixDegenerated", "setNumber:Geometry.OCCFixSmallEdges",
      "setNumber:Geometry.OCCFixSmallFaces", "setNumber:Geometry.OCCSewFaces">>

\* mutant: the healing flag is ignored
LoadCalls_noHealing(cad, healing) ==
    IF cad THEN <<"occ.importShapes", "occ.synchronize">> ELSE <<"merge">>

\* the engine calls that load a file
LoadCalls(cad, healing) ==
    IF cad
    THEN (IF healing THEN HealingOptions ELSE <<>>)
         \o <<"occ.importShapes", "occ.synchronize">>
    ELSE <<"merge">>

SessionCalls == <<"initialize", "setNumber:General.Terminal", "model.add">>

\* engine sessions left open by a call that made `calls`: initialize succeeded and
\* no finalize that followed it succeeded
SessionsOpen(calls, failAt, finFails) ==
    IF calls # <<>> /\ failAt # 1 /\ (finFails \/ "finalize" \notin Range(calls)) THEN 1 ELSE 0

\* mutant: the thresholds are inclusive
EstimateUnit_inclusive(max_dim) ==
    IF max_dim >= UNIT_THRESHOLD_MM THEN "MILLIMETERS"
    ELSE IF max_dim >= UNIT_THRESHOLD_CM THEN "CENTIMETERS"
    ELSE IF max_dim >= UNIT_THRESHOLD_M THEN "METERS"
    ELSE "MILLIMETERS"

\* the unit estimated from the largest bounding-box extent
EstimateUnit(max_dim) ==
    IF max_dim > UNIT_THRESHOLD_MM THEN "MILLIMETERS"
    ELSE IF max_dim > UNIT_THRESHOLD_CM THEN "CENTIMETERS"
    ELSE IF max_dim > UNIT_THRESHOLD_M THEN "METERS"
    ELSE "MILLIMETERS"

\* the dict get_model_info starts from
EmptyInfo ==
    [valid |-> FALSE, entities |-> 0, volumes |-> 0, surfaces |-> 0, curves |-> 0,
     points |-> 0, bounding_box |-> {}, estimated_unit |-> "UNKNOWN", part_names |-> <<>>]

BoundingBox(max_dim) == {<<"min", 0>>, <<"max", max_dim>>, <<"size", max_dim>>}

\* the calls get_model_info makes on model m when none raises (finalize excluded)
InfoPlan(m) ==
    SessionCalls \o LoadCalls(m.cad, FALSE) \o <<"model.getEntities">>
    \o (IF m.ents # <<>> THEN <<"model.getBoundingBox">> ELSE <<>>)
    \o [i \in 1..Len(m.ents) |-> "model.getEntityName"]

\* mutant: the load handler returns without finalizing
InfoFinalizeCalls_leakOnLoad(region, finFails) ==
    IF region = "load" THEN <<>>
    ELSE IF region \in {"session", "entities"} \/ ~finFails
    THEN <<"finalize">> ELSE <<"finalize", "finalize">>

\* the finalize calls of get_model_info, by the region of the call that raised: the
\* load handler and the normal exit call finalize inside the outer try, so a finalize
\* that raises there reaches the outer handler, which calls it again
InfoFinalizeCalls(region, finFails) ==
    IF region \in {"session", "entities"} \/ ~finFails
    THEN <<"finalize">> ELSE <<"finalize", "finalize">>

\* the return statement get_model_info leaves by: "load" is the load handler's
\* (line 184), "normal" the one after the last finalize (line 235), "outer" the
\* outer handler's (line 244), reached by every raise no inner handler catches
InfoExit(region, finFails) ==
    IF region \in {"session", "entities"} \/ finFails THEN "outer"
    ELSE IF region = "load" THEN "load"
    ELSE "normal"

\* mutant: valid is set only once every engine call has returned
InfoValid_setAtEnd(region) == region = "none"

\* info['valid']: set to True as soon as the load calls have returned (line 186)
InfoValid(region) == region \notin {"session", "load"}

\* what get_model_info returns when gmsh is not available
InfoUnavailable ==
    [info |-> EmptyInfo, calls |-> <<>>, open |-> 0, region |-> "none",
     exit |-> "unavailable"]

\* GmshManager.get_model_info: [info, calls (the engine calls made), open (sessions
\* left open), region (where the engine raised), exit (the return taken)]
get_model_info(avail, m, failAt, finFails) ==
    IF ~avail THEN InfoUnavailable
    ELSE
    LET plan == InfoPlan(m)
        pPre == Len(SessionCalls)
        pLoad == pPre + Len(LoadCalls(m.cad, FALSE))
        pEnt == pLoad + 1
        pBox == pEnt + (IF m.ents # <<>> THEN 1 ELSE 0)
        region == IF failAt = 0 THEN "none"
                  ELSE IF failAt <= pPre THEN "session"
                  ELSE IF failAt <= pLoad THEN "load"
                  ELSE IF failAt = pEnt THEN "entities"
                  ELSE IF failAt <= pBox THEN "bbox"
                  ELSE "names"
        loaded == region \notin {"session", "load"}
        valid == InfoValid(region)
        enumerated == loaded /\ region # "entities"
        boxed == enumerated /\ region # "bbox" /\ m.ents # <<>>
        named == IF ~enumerated THEN 0
                 ELSE IF region = "names" THEN failAt - pBox - 1
                 ELSE Len(m.ents)
        body == IF region \in {"none", "bbox"} THEN plan ELSE SubSeq(plan, 1, failAt)
        calls == body \o InfoFinalizeCalls(region, finFails)
        info == [valid |-> valid,
                 entities |-> IF enumerated THEN Len(m.ents) ELSE 0,
                 volumes |-> IF enumerated THEN CountDim(m.ents, 3) ELSE 0,
                 surfaces |-> IF enumerated THEN CountDim(m.ents, 2) ELSE 0,
                 curves |-> IF enumerated THEN CountDim(m.ents, 1) ELSE 0,
                 points |-> IF enumerated THEN CountDim(m.ents, 0) ELSE 0,
                 bounding_box |-> IF boxed THEN BoundingBox(m.max_dim) ELSE {},
                 estimated_unit |-> IF boxed THEN EstimateUnit(m.max_dim) ELSE "UNKNOWN",
                 part_names |-> DedupNames(EntityNames(m.ents, named), <<>>)]
    IN [info |-> info, calls |-> calls, open |-> SessionsOpen(calls, failAt, finFails),
        region |-> region, exit |-> InfoExit(region, finFails)]

\* the mesh options convert_to_stl sets
MeshOptionCalls(optimize_mesh) ==
    <<"setNumber:Mesh.CharacteristicLengthMin", "setNumber:Mesh.CharacteristicLengthMax",
      "setNumber:Mesh.Algorithm">>
    \o (IF optimize_mesh THEN <<"setNumber:Mesh.Optimize", "setNumber:Mesh.OptimizeNetgen">>
        ELSE <<>>)

\* mutant: the mesh is generated before the mesh options are set
ConvertPlan_generateFirst(m, optimize_mesh, healing) ==
    SessionCalls \o LoadCalls(m.cad, healing) \o <<"model.getEntities">>
    \o [i \in 1..Len(m.ents) |-> "model.getEntityName"]
    \o <<"mesh.generate:2">> \o MeshOptionCalls(optimize_mesh) \o <<"write">>

\* the calls convert_to_stl makes on model m when none raises (finalize excluded)
ConvertPlan(m, optimize_mesh, healing) ==
    SessionCalls \o LoadCalls(m.cad, healing) \o <<"model.getEntities">>
    \o [i \in 1..Len(m.ents) |-> "model.getEntityName"]
    \o MeshOptionCalls(optimize_mesh) \o <<"mesh.generate:2", "write">>

\* mutant: the handler of a failed gmsh.write returns without finalizing
ConvertFinalizeCalls_leakOnWrite(region, finFails) ==
    IF region = "write" THEN <<>>
    ELSE IF region \in {"session", "meshopts"} \/ ~finFails
    THEN <<"finalize">> ELSE <<"finalize", "finalize">>

\* the finalize calls of convert_to_stl, by the region of the call that raised
ConvertFinalizeCalls(region, finFails) ==
    IF region \in {"session", "meshopts"} \/ ~finFails
    THEN <<"finalize">> ELSE <<"finalize", "finalize">>

\* the message convert_to_stl returns
ConvertMessage(region, finFails) ==
    IF region \in {"session", "meshopts"} \/ finFails THEN "Conversion error"
    ELSE IF region = "load" THEN "Failed to import CAD file"
    ELSE IF region = "generate" THEN "Failed to generate mesh"
    ELSE IF region = "write" THEN "Failed to write STL"
    ELSE "Conversion successful"

\* mutant: a failure return hands back the names collected so far
ConvertPartNames_keepCollected(success, collected) == collected

\* the third element of the tuple convert_to_stl returns: `part_names` on the
\* success return, the literal `[]` on every failure return
ConvertPartNames(success, collected) == IF success THEN collected ELSE <<>>

\* mutant: the session is opened before availability is checked
ConvertUnavailable_startsSession ==
    [success |-> FALSE, message |-> "gmsh is not installed", part_names |-> <<>>,
     calls |-> <<"initialize", "finalize">>, open |-> 0, wrote |-> FALSE,
     region |-> "unavailable"]

\* what convert_to_stl returns when gmsh is not available (line 263)
ConvertUnavailable ==
    [success |-> FALSE, message |-> "gmsh is not installed", part_names |-> <<>>,
     calls |-> <<>>, open |-> 0, wrote |-> FALSE, region |-> "unavailable"]

\* GmshManager.convert_to_stl: [success, message, part_names, calls, open, wrote,
\* region] (wrote: gmsh.write(output_path) returned; region: where the engine raised)
convert_to_stl(avail, m, optimize_mesh, healing, failAt, finFails) ==
    IF ~avail THEN ConvertUnavailable
    ELSE
    LET plan == ConvertPlan(m, optimize_mesh, healing)
        pPre == Len(SessionCalls)
        pLoad == pPre + Len(LoadCalls(m.cad, healing))
        pNames == pLoad + 1 + Len(m.ents)
        pOpts == pNames + Len(MeshOptionCalls(optimize_mesh))
        pGen == pOpts + 1
        region == IF failAt = 0 THEN "none"
                  ELSE IF failAt <= pPre THEN "session"
                  ELSE IF failAt <= pLoad THEN "load"
                  ELSE IF failAt <= pNames THEN "names"
                  ELSE IF failAt <= pOpts THEN "meshopts"
                  ELSE IF failAt = pGen THEN "generate"
                  ELSE "write"
        named == IF region \in {"session", "load"} THEN 0
                 ELSE IF region = "names"
                      THEN (IF failAt = pLoad + 1 THEN 0 ELSE failAt - pLoad - 2)
                 ELSE Len(m.ents)
        \* a raise while part names are extracted is swallowed and the run goes on
        body == IF region = "none" THEN plan
                ELSE IF region = "names"
                     THEN SubSeq(plan, 1, failAt) \o SubSeq(plan, pNames + 1, Len(plan))
                ELSE SubSeq(plan, 1, failAt)
        calls == body \o ConvertFinalizeCalls(region, finFails)
        success == region \in {"none", "names"} /\ ~finFails
    IN [success |-> success,
        message |-> ConvertMessage(region, finFails),
        part_names |-> ConvertPartNames(success, AllNames(EntityNames(m.ents, named), <<>>)),
        calls |-> calls,
        open |-> SessionsOpen(calls, failAt, finFails),
        wrote |-> region \in {"none", "names"},
        region |-> region]

\* mutant: a failed probe is not cached
is_available_forgetsFalse(cache, installed) ==
    IF cache # "None" THEN [value |-> cache = "True", cache |-> cache, probed |-> FALSE]
    ELSE IF installed THEN [value |-> TRUE, cache |-> "True", probed |-> TRUE]
    ELSE [value |-> FALSE, cache |-> "None", probed |-> TRUE]

\* GmshManager.is_available on the cache (None, True or False): [value, cache,
\* probed (it ran `import gmsh`, which succeeds or raises ImportError)]
is_available(cache, installed) ==
    IF cache # "None" THEN [value |-> cache = "True", cache |-> cache, probed |-> FALSE]
    ELSE IF installed THEN [value |-> TRUE, cache |-> "True", probed |-> TRUE]
    ELSE [value |-> FALSE, cache |-> "False", probed |-> TRUE]

\* GmshManager.get_version, given what is_available answered
get_version(available, installed) ==
    IF ~available THEN "Not installed"
    ELSE IF installed THEN "GMSH_API_VERSION"
    ELSE "Unknown"

\* the outcomes of the pip subprocess of GmshManager.install
PipOutcomes == {"returncode 0", "returncode 1", "TimeoutExpired", "Exception"}

\* mutant: the installer's exit code alone decides
InstallSuccess_ignoresProbe(pip, available) == pip = "returncode 0"

\* the flag GmshManager.install returns (available: is_available after the reset)
InstallSuccess(pip, available) == pip = "returncode 0" /\ available

\* the message GmshManager.install returns (available: is_available after the reset)
InstallMessage(pip, available) ==
    IF pip = "TimeoutExpired" THEN "Installation timed out"
    ELSE IF pip = "Exception" THEN "Installation error"
    ELSE IF pip = "returncode 1" THEN "pip install failed"
    ELSE IF available THEN "gmsh installed successfully"
    ELSE "gmsh installed but cannot be imported"

(***************************************************************************)
(* ImportProgress.                                                         *)
(***************************************************************************)
\* ImportProgress.__init__
NewImportProgress ==
    [total_files |-> 0, current_file |-> 0, current_filename |-> "", phase |-> "",
     is_running |-> FALSE, was_cancelled |-> FALSE]

\* mutant: start leaves was_cancelled as it was
start_keepsCancelled(p, total) ==
    [total_files |-> total, current_file |-> 0, current_filename |-> "", phase |-> "",
     is_running |-> TRUE, was_cancelled |-> p.was_cancelled]

\* ImportProgress.start
start(p, total) ==
    [total_files |-> total, current_file |-> 0, current_filename |-> "", phase |-> "",
     is_running |-> TRUE, was_cancelled |-> FALSE]

\* ImportProgress.update
update(p, file_index, filename, phase) ==
    [p EXCEPT !.current_file = file_index, !.current_filename = filename, !.phase = phase]

\* mutant: stop also clears was_cancelled
stop_clearsCancelled(p) == [p EXCEPT !.is_running = FALSE, !.was_cancelled = FALSE]

\* ImportProgress.stop
stop(p) == [p EXCEPT !.is_running = FALSE]

\* mutant: cancel leaves is_running as it is
cancel_keepsRunning(p) == [p EXCEPT !.was_cancelled = TRUE]

\* ImportProgress.cancel
cancel(p) == [p EXCEPT !.was_cancelled = TRUE, !.is_running = FALSE]

\* Floats are kept exact as fractions <<numerator, denominator>>, denominator > 0.
RatAdd(a, b) == <<a[1] * b[2] + b[1] * a[2], a[2] * b[2]>>
RatTimes(a, k) == <<a[1] * k, a[2]>>
RatLeq(a, b) == a[1] * b[2] <= b[1] * a[2]
RatLess(a, b) == a[1] * b[2] < b[1] * a[2]
RatEq(a, b) == a[1] * b[2] = b[1] * a[2]
RatMin(a, b) == IF RatLeq(a, b) THEN a ELSE b

\* mutant: the result is not capped
progress_percent_uncapped(p) ==
    IF p.total_files = 0 THEN <<0, 1>>
    ELSE LET base == RatTimes(<<p.current_file, p.total_files>>, 100)
             bonus == RatTimes(<<1, 2 * p.total_files>>, 100)
         IN IF p.phase = "converting" THEN RatAdd(base, bonus) ELSE base

\* mutant: the converting bonus is one file and a half
progress_percent_bigBonus(p) ==
    IF p.total_files = 0 THEN <<0, 1>>
    ELSE LET base == RatTimes(<<p.current_file, p.total_files>>, 100)
             bonus == RatTimes(<<3, 2 * p.total_files>>, 100)
         IN RatMin(IF p.phase = "converting" THEN RatAdd(base, bonus) ELSE base, <<100, 1>>)

\* mutant: the bonus is added in every phase but the empty one
progress_percent_bonusInAnyPhase(p) ==
    IF p.total_files = 0 THEN <<0, 1>>
    ELSE LET base == RatTimes(<<p.current_file, p.total_files>>, 100)
             bonus == RatTimes(<<1, 2 * p.total_files>>, 100)
         IN RatMin(IF p.phase # "" THEN RatAdd(base, bonus) ELSE base, <<100, 1>>)

\* ImportProgress.progress_percent
progress_percent(p) ==
    IF p.total_files = 0 THEN <<0, 1>>
    ELSE LET base == RatTimes(<<p.current_file, p.total_files>>, 100)
             bonus == RatTimes(<<1, 2 * p.total_files>>, 100)
         IN RatMin(IF p.phase = "converting" THEN RatAdd(base, bonus) ELSE base, <<100, 1>>)

\* mutant: the file number is printed zero-based
status_text_zeroBased(p) ==
    IF ~p.is_running THEN <<>>
    ELSE LET phase_text == IF p.phase = "converting" THEN "Converting" ELSE "Importing"
         IN <<"Ladder: ", phase_text, " ", p.current_filename, " (",
              ToString(p.current_file), "/", ToString(p.total_files), ")">>

\* ImportProgress.status_text: the f-string as the sequence of its pieces, the empty
\* string as the empty sequence
status_text(p) ==
    IF ~p.is_running THEN <<>>
    ELSE LET phase_text == IF p.phase = "converting" THEN "Converting" ELSE "Importing"
         IN <<"Ladder: ", phase_text, " ", p.current_filename, " (",
              ToString(p.current_file + 1), "/", ToString(p.total_files), ")">>

(***************************************************************************)
(* State.                                                                  *)
(***************************************************************************)
VARIABLES
    gmsh_installed,         \* environment: `import gmsh` succeeds
    filesOnDisk,            \* environment: the selected files that exist on disk
    otherBatch,             \* environment: another instance of the operator, as far as
                            \* it uses import_progress (modal handler, files, index)
    _gmsh_available,        \* GmshManager._gmsh_available: "None", "True" or "False"
    engineOpen,             \* gmsh sessions left open by the last engine call (0 or 1)
    import_progress,        \* the module-level ImportProgress singleton
    source_unit,            \* operator properties
    import_to_collection,
    result,                 \* last value returned by execute / modal ("NONE" before)
    started,                \* execute got as far as `import_progress.start`
    handler,                \* the operator is a registered modal handler
    _timer,                 \* the operator's event timer is registered
    _files_to_process,
    _current_index,
    _temp_files,
    _all_imported_objects,
    _target_collection,     \* 0 for None, else the id of the collection
    objects,                \* bpy.data.objects
    collections,            \* bpy.data.collections
    collObjects,            \* objects linked to the target collection
    tempExists,             \* temporary files on disk
    tempCount,              \* temporary files created so far by mkstemp
    reports,                \* self.report calls, in order
    mesh_quality,           \* operator properties: the preset, the custom element
    mesh_size_min,          \* sizes (thousandths of a model unit), naming and origin
    mesh_size_max,
    use_part_names,
    set_origin,
    _mesh_min,              \* the element sizes execute resolved
    _mesh_max,
    cursor_location,        \* context.scene.cursor.location
    stepDetail,             \* history: the unit scale, the names assigned and the cursor
                            \* statements of the per-file step, where it is followed
    stepLog,                \* history: one record per _process_current_file call: the
                            \* file, the index, the result, why it failed, the new
                            \* objects it found, the objects added to the scene
                            \* meanwhile, its temp file (0 when none was created),
                            \* whether stl_import was called, the phases it passed
                            \* to import_progress.update
    escSeen,                \* history: an ESC event was delivered to modal
    unlinkTried,            \* history: temp files on which unlink was called
    unlinkFailed,           \* history: temp files whose unlink raised
    cadModel,               \* the CAD model behind the path given to a direct backend call
    lastCall,               \* the last direct call of get_model_info / convert_to_stl
    prevCall,               \* history: what the direct call before lastCall returned
    availLog,               \* history: value and probe flag of the is_available calls
                            \* of the availability API since the cache was last reset
    lastReturn,             \* the last direct call of the availability API, its result
                            \* and the resets made so far
    progressCall            \* the last direct call of an ImportProgress method, its
                            \* arguments and the object's fields before it

backendVars == <<gmsh_installed, _gmsh_available, engineOpen>>
envVars == <<filesOnDisk, otherBatch>>
settingVars == <<mesh_quality, mesh_size_min, mesh_size_max, use_part_names, set_origin>>
operatorVars ==
    <<source_unit, import_to_collection, result, started, handler, _timer,
      _files_to_process, _current_index, _temp_files, _all_imported_objects,
      _target_collection, settingVars, _mesh_min, _mesh_max>>
hostVars ==
    <<objects, collections, collObjects, tempExists, tempCount, reports, cursor_location>>
historyVars == <<stepLog, escSeen, unlinkTried, unlinkFailed, stepDetail>>
apiHistory == <<prevCall, availLog, lastReturn, progressCall>>
apiVars == <<cadModel, lastCall, apiHistory>>
vars ==
    <<backendVars, envVars, import_progress, operatorVars, hostVars, historyVars, apiVars>>

\* the files the user selected: ids 1..MaxFiles, in selection order
Files == 1..MaxFiles

\* input_path.name
FileName(f) == "part" \o ToString(f) \o ".step"

\* objects in the scene before any import
InitialObjects == {1}

\* the source_unit values explored
BatchUnits == {"AUTO", "MILLIMETERS"}

\* the conversion result before any conversion
NoResult ==
    [success |-> FALSE, message |-> "", part_names |-> <<>>, calls |-> <<>>, open |-> 0,
     wrote |-> FALSE, region |-> "none"]

\* lastCall before any direct backend call
NoCall ==
    [op |-> "none", available |-> FALSE, optimize_mesh |-> FALSE, healing |-> FALSE,
     failAt |-> 0, finFails |-> FALSE, info |-> EmptyInfo, conv |-> NoResult,
     calls |-> <<>>, region |-> "none", exit |-> "none", openBefore |-> 0]

NoModel == [cad |-> FALSE, ents |-> <<>>, max_dim |-> 0]

\* what is kept of a direct call once the next one is made: which function it was,
\* whether gmsh was available, where the engine raised, whether finalize raised
CallSummary(c) ==
    [op |-> c.op, available |-> c.available, region |-> c.region, finFails |-> c.finFails]

\* lastReturn before any direct call of the availability API
NoReturn ==
    [op |-> "none", value |-> "", probed |-> FALSE, resets |-> 0, pip |-> "",
     importable |-> FALSE, success |-> FALSE, cacheBefore |-> "None"]

\* progressCall before any direct call of an ImportProgress method
NoProgressCall ==
    [op |-> "none", total |-> 0, file_index |-> 0, filename |-> "", phase |-> "",
     before |-> NewImportProgress]

\* no other instance of the operator was invoked
NoOtherBatch == [handler |-> FALSE, total_files |-> 0, index |-> 0]

\* stepDetail before a step is followed
NoDetail ==
    [done |-> FALSE, estimated_unit |-> "UNKNOWN", unit_scale |-> 0, base_name |-> <<>>,
     part_names |-> <<>>, types |-> <<>>, names |-> <<>>, cursorBefore |-> WorldOrigin,
     trace |-> <<>>]

\* the operator's properties and class attributes at their defaults, the 3D cursor
\* where a new scene has it
DefaultSettings ==
    /\ mesh_quality = "NORMAL"
    /\ mesh_size_min = 100
    /\ mesh_size_max = 10000
    /\ use_part_names = FALSE
    /\ set_origin = "NONE"
    /\ _mesh_min = 100
    /\ _mesh_max = 10000
    /\ cursor_location = WorldOrigin
    /\ stepDetail = NoDetail

\* no direct call was made yet
NoApiHistory ==
    /\ prevCall = CallSummary(NoCall)
    /\ availLog = <<>>
    /\ lastReturn = NoReturn
    /\ progressCall = NoProgressCall

Init ==
    /\ cadModel = NoModel
    /\ lastCall = NoCall
    /\ NoApiHistory
    /\ DefaultSettings
    /\ otherBatch = NoOtherBatch
    /\ gmsh_installed \in BOOLEAN
    /\ filesOnDisk \in SUBSET Files
    /\ _gmsh_available = "None"
    /\ engineOpen = 0
    /\ import_progress = NewImportProgress
    /\ source_unit \in BatchUnits
    /\ import_to_collection \in BOOLEAN
    /\ result = "NONE"
    /\ started = FALSE
    /\ handler = FALSE
    /\ _timer = FALSE
    /\ _files_to_process = <<>>
    /\ _current_index = 0
    /\ _temp_files = <<>>
    /\ _all_imported_objects = <<>>
    /\ _target_collection = 0
    /\ objects = InitialObjects
    /\ collections = {}
    /\ collObjects = {}
    /\ tempExists = {}
    /\ tempCount = 0
    /\ reports = <<>>
    /\ stepLog = <<>>
    /\ escSeen = FALSE
    /\ unlinkTried = {}
    /\ unlinkFailed = {}

(***************************************************************************)
(* What one engine call can return to the batch driver: the results of     *)
(* get_model_info and convert_to_stl over every model and every engine     *)
(* run, reduced to the fields the driver reads.                            *)
(***************************************************************************)
EngineRuns(plan) == (0..Len(plan)) \X BOOLEAN

InfoOutcomes ==
    {[estimated_unit |-> r.info.estimated_unit, open |-> r.open] :
        r \in UNION {{get_model_info(TRUE, m, run[1], run[2]) : run \in EngineRuns(InfoPlan(m))} :
                        m \in Models}}

ConvertOutcomes ==
    {[success |-> r.success, message |-> r.message, part_names |-> r.part_names,
      open |-> r.open] :
        r \in UNION {{convert_to_stl(TRUE, m, opt, heal, run[1], run[2]) :
                         run \in EngineRuns(ConvertPlan(m, opt, heal))} :
                        <<m, opt, heal>> \in Models \X BOOLEAN \X BOOLEAN}}

\* the value of `info` when get_model_info is not called
NoInfo == [estimated_unit |-> "UNKNOWN", open |-> 0]

\* the value of the conversion result when convert_to_stl is not reached
NoConversion == [success |-> FALSE, message |-> "", part_names |-> <<>>, open |-> 0]

(***************************************************************************)
(* LADDER_OT_import_cad.execute                                            *)
(***************************************************************************)
\* `self._files_to_process = [f for f in self._files_to_process if f.exists()]`
ResolveFiles(existing) == SelectIds(existing, 1)

\* mutant: execute does not check that a file was resolved
ExecuteError_noFileCheck(available, files) ==
    IF ~available THEN "gmsh is not installed" ELSE ""

\* the checks that end execute before the batch starts: "" when it may start
ExecuteError(available, files) ==
    IF ~available THEN "gmsh is not installed"
    ELSE IF files = <<>> THEN "No valid CAD files selected"
    ELSE ""

\* mutant: the custom sizes are used only when they are ordered
ResolveMeshSize_ordersCustom(quality, size_min, size_max) ==
    IF quality = "CUSTOM" /\ size_min < size_max THEN <<size_min, size_max>>
    ELSE IF quality \in DOMAIN MESH_QUALITY_PRESETS THEN MESH_QUALITY_PRESETS[quality]
    ELSE MESH_QUALITY_PRESETS["NORMAL"]

\* (self._mesh_min, self._mesh_max): the custom sizes, or the preset's pair
\* (`MESH_QUALITY_PRESETS.get(self.mesh_quality, MESH_QUALITY_PRESETS['NORMAL'])`)
ResolveMeshSize(quality, size_min, size_max) ==
    IF quality = "CUSTOM" THEN <<size_min, size_max>>
    ELSE IF quality \in DOMAIN MESH_QUALITY_PRESETS THEN MESH_QUALITY_PRESETS[quality]
    ELSE MESH_QUALITY_PRESETS["NORMAL"]

execute ==
    LET av == is_available(_gmsh_available, gmsh_installed)
        files == ResolveFiles(filesOnDisk)
        error == ExecuteError(av.value, files)
        coll == Cardinality(collections) + 1
        mesh_size == ResolveMeshSize(mesh_quality, mesh_size_min, mesh_size_max)
    IN /\ result = "NONE"
       /\ _gmsh_available' = av.cache
       /\ IF error # ""
          THEN /\ reports' = Append(reports, [level |-> "ERROR", file |-> 0, text |-> error])
               /\ result' = "CANCELLED"
               /\ UNCHANGED <<import_progress, started, handler, _timer, _files_to_process,
                              _current_index, _temp_files, _all_imported_objects,
                              _target_collection, collections, _mesh_min, _mesh_max>>
          ELSE /\ _files_to_process' = files
               /\ _mesh_min' = mesh_size[1]
               /\ _mesh_max' = mesh_size[2]
               /\ _target_collection' = IF import_to_collection THEN coll ELSE 0
               /\ collections' = IF import_to_collection THEN collections \cup {coll}
                                 ELSE collections
               /\ _current_index' = 0
               /\ _temp_files' = <<>>
               /\ _all_imported_objects' = <<>>
               /\ import_progress' = start(import_progress, Len(files))
               /\ started' = TRUE
               /\ _timer' = TRUE
               /\ handler' = TRUE
               /\ result' = "RUNNING_MODAL"
               /\ UNCHANGED reports
       /\ UNCHANGED <<gmsh_installed, envVars, engineOpen, source_unit,
                      import_to_collection, objects, collObjects, tempExists, tempCount,
                      settingVars, cursor_location, historyVars, apiVars>>

(***************************************************************************)
(* LADDER_OT_import_cad._process_current_file                              *)
(*   tmpFail   : tempfile.mkstemp raises                                   *)
(*   info      : what get_model_info returns (read when source_unit is     *)
(*               AUTO)                                                     *)
(*   conv      : what convert_to_stl returns                               *)
(*   outGone   : the output path does not exist after the conversion       *)
(*   impRaises : bpy.ops.wm.stl_import raises                              *)
(*   k         : objects stl_import adds to the scene (before it raises)   *)
(* The step runs while the operator is a modal handler, so is_available    *)
(* answers True from its cache and conv ranges over ConvertOutcomes. The   *)
(* unit scale goes to stl_import only (global_scale * unit_scale); naming, *)
(* shading and origin changes touch the new objects alone.                 *)
(***************************************************************************)
\* unit_scale: 1.0 unless the unit (the estimated one under AUTO) is in UNIT_SCALES
UnitScaleFor(unit, estimated_unit) ==
    LET u == IF unit = "AUTO" THEN estimated_unit ELSE unit
    IN IF u \in DOMAIN UNIT_SCALES THEN UNIT_SCALES[u] ELSE UNIT_SCALES["METERS"]

\* `self.report({'WARNING'}, ...)` calls of one step
StepWarnings(f, conv) ==
    IF ~conv.success
    THEN <<[level |-> "WARNING", file |-> f, text |-> conv.message]>>
    ELSE <<>>

\* mutant: every object of the scene counts as new
NewObjects_noDiff(before_objects, after) == SelectIds(after, 1)

\* `new_objects = [obj for obj in bpy.data.objects if obj not in before_objects]`
NewObjects(before_objects, after) == SelectIds(after \ before_objects, 1)

\* mutant: the list is assigned, not extended
ExtendImported_replace(all_imported, new_objects) == new_objects

\* `self._all_imported_objects.extend(new_objects)`
ExtendImported(all_imported, new_objects) == all_imported \o new_objects

\* mutant: the output file is not looked for before the import
ImportReached_noOutputCheck(created, success, outGone) == created /\ success

\* the step gets as far as bpy.ops.wm.stl_import: the temp file was created, the
\* conversion reported success and the output path exists (lines 1059-1066)
ImportReached(created, success, outGone) == created /\ success /\ ~outGone

\* mutant: the temp file is registered once the conversion has succeeded
RegisterTemp_afterConversion(temp_files, t, success) ==
    IF success THEN Append(temp_files, t) ELSE temp_files

\* `self._temp_files.append(output_path)`, before the conversion is called (line 1033)
RegisterTemp(temp_files, t, success) == Append(temp_files, t)

_process_current_file(tmpFail, info, conv, outGone, impRaises, k) ==
    LET f == _files_to_process[_current_index + 1]
        t == tempCount + 1
        created == ~tmpFail
        unit_scale == UnitScaleFor(source_unit, info.estimated_unit)
        converted == created /\ conv.success
        importing == ImportReached(created, conv.success, outGone)
        n == Cardinality(objects)
        after == IF importing THEN objects \cup ((n + 1)..(n + k)) ELSE objects
        new_objects == IF importing /\ ~impRaises THEN NewObjects(objects, after) ELSE <<>>
        ok == new_objects # <<>>
        cause == IF tmpFail THEN "tempfile"
                 ELSE IF ~conv.success THEN "convert"
                 ELSE IF outGone THEN "nooutput"
                 ELSE IF impRaises THEN "import"
                 ELSE IF new_objects = <<>> THEN "noobjects"
                 ELSE "ok"
        converting == update(import_progress, _current_index, FileName(f), "converting")
    IN /\ import_progress' = IF importing
                             THEN update(converting, _current_index, FileName(f), "importing")
                             ELSE converting
       /\ tempCount' = IF created THEN t ELSE tempCount
       /\ _temp_files' = IF created THEN RegisterTemp(_temp_files, t, conv.success)
                          ELSE _temp_files
       /\ tempExists' = IF created /\ ~outGone THEN tempExists \cup {t} ELSE tempExists
       /\ engineOpen' = IF created THEN conv.open ELSE engineOpen
       /\ reports' = IF created THEN reports \o StepWarnings(f, conv) ELSE reports
       /\ objects' = after
       /\ collObjects' = IF ok /\ _target_collection # 0
                         THEN collObjects \cup Range(new_objects) ELSE collObjects
       /\ _all_imported_objects' = IF ok THEN ExtendImported(_all_imported_objects, new_objects)
                                   ELSE _all_imported_objects
       /\ stepLog' = Append(stepLog,
                            [file |-> f, index |-> _current_index,
                             result |-> IF ok THEN "OK" ELSE "ERROR", cause |-> cause,
                             new |-> new_objects, added |-> after \ objects,
                             temp |-> IF created THEN t ELSE 0,
                             import_called |-> importing,
                             phases |-> IF importing THEN <<"converting", "importing">>
                                        ELSE <<"converting">>])

(***************************************************************************)
(* LADDER_OT_import_cad._finish                                            *)
(*   undeletable: the temp files whose unlink raises                       *)
(***************************************************************************)
\* mutant: the try encloses the loop, so the first unlink that raises ends the cleanup
CleanupTempFiles_stopAtFailure(temp_files, exists, undeletable) ==
    exists \ {temp_files[i] : i \in {j \in 1..Len(temp_files) :
                                       \A h \in 1..j : temp_files[h] \notin undeletable}}

\* the files left on disk by the cleanup loop
CleanupTempFiles(temp_files, exists, undeletable) ==
    exists \ (Range(temp_files) \ undeletable)

\* mutant: an empty collection is removed on both terminal paths
FinishCollections_removeWhenEmpty(cancelled, target, members, colls) ==
    IF target # 0 /\ members = {} THEN colls \ {target} ELSE colls

\* mutant: a cancelled batch keeps its empty collection
FinishCollections_keepEmpty(cancelled, target, members, colls) == colls

\* bpy.data.collections after _finish: a cancelled batch removes its empty collection
FinishCollections(cancelled, target, members, colls) ==
    IF cancelled /\ target # 0 /\ members = {} THEN colls \ {target} ELSE colls

_finish(cancelled) ==
    \E undeletable \in SUBSET (Range(_temp_files) \cap tempExists) :
       /\ _timer' = FALSE
       /\ import_progress' = IF cancelled THEN cancel(stop(import_progress))
                             ELSE stop(import_progress)
       /\ unlinkTried' = unlinkTried \cup (Range(_temp_files) \cap tempExists)
       /\ unlinkFailed' = unlinkFailed \cup undeletable
       /\ tempExists' = CleanupTempFiles(_temp_files, tempExists, undeletable)
       /\ _temp_files' = <<>>
       /\ collections' = FinishCollections(cancelled, _target_collection, collObjects,
                                           collections)
       /\ reports' = Append(reports,
                            [level |-> "INFO", file |-> 0,
                             text |-> IF cancelled THEN "Import cancelled" ELSE "Imported"])
       /\ result' = IF cancelled THEN "CANCELLED" ELSE "FINISHED"
       /\ handler' = FALSE
       /\ UNCHANGED <<backendVars, envVars, source_unit, import_to_collection, started,
                      _files_to_process, _current_index, _all_imported_objects,
                      _target_collection, objects, collObjects, tempCount, stepLog,
                      settingVars, _mesh_min, _mesh_max, cursor_location, stepDetail,
                      apiVars>>

(***************************************************************************)
(* LADDER_OT_import_cad.modal                                              *)
(***************************************************************************)
\* mutant: once every file was processed, ESC finishes the batch like a TIMER tick
modal_dispatch_finishWins(event_type, current_index, file_count) ==
    IF event_type \in {"ESC", "TIMER"} /\ current_index >= file_count THEN "finish"
    ELSE IF event_type = "ESC" THEN "cancel"
    ELSE IF event_type = "TIMER" THEN "process"
    ELSE "pass"

\* mutant: ESC is not handled
modal_dispatch_escIgnored(event_type, current_index, file_count) ==
    IF event_type = "TIMER"
    THEN (IF current_index >= file_count THEN "finish" ELSE "process")
    ELSE "pass"

\* mutant: the tick after the last file does not finish the batch
modal_dispatch_neverFinishes(event_type, current_index, file_count) ==
    IF event_type = "ESC" THEN "cancel"
    ELSE IF event_type = "TIMER" /\ current_index < file_count THEN "process"
    ELSE "pass"

\* what modal does with an event: "cancel", "finish", "process" or "pass"
modal_dispatch(event_type, current_index, file_count) ==
    IF event_type = "ESC" THEN "cancel"
    ELSE IF event_type = "TIMER"
         THEN (IF current_index >= file_count THEN "finish" ELSE "process")
    ELSE "pass"

\* mutant: the index advances by two
NextIndex_byTwo(current_index, step_result) == current_index + 2

\* mutant: a failed file also skips the file after it
NextIndex_skipAfterError(current_index, step_result) ==
    IF step_result = "ERROR" THEN current_index + 2 ELSE current_index + 1

\* mutant: the index advances only when the file succeeded
NextIndex_retryOnError(current_index, step_result) ==
    IF step_result = "ERROR" THEN current_index ELSE current_index + 1

\* `self._current_index += 1`, whatever _process_current_file returned
NextIndex(current_index, step_result) == current_index + 1

\* one file: _process_current_file on every input it can meet, then the index
ProcessAndAdvance ==
    /\ \E tmpFail \in BOOLEAN :
          IF tmpFail
          THEN _process_current_file(TRUE, NoInfo, NoConversion, FALSE, FALSE, 0)
          ELSE \E info \in (IF source_unit = "AUTO" THEN InfoOutcomes ELSE {NoInfo}),
                  conv \in ConvertOutcomes, outGone \in BOOLEAN :
                  IF ~conv.success \/ outGone
                  THEN _process_current_file(FALSE, info, conv, outGone, FALSE, 0)
                  ELSE \E impRaises \in BOOLEAN, k \in 0..MaxNewObjects :
                          _process_current_file(FALSE, info, conv, FALSE, impRaises, k)
    /\ _current_index' = NextIndex(_current_index, stepLog'[Len(stepLog')].result)
    /\ UNCHANGED <<gmsh_installed, envVars, _gmsh_available, source_unit,
                   import_to_collection, result, started, handler, _timer, _files_to_process,
                   _target_collection, collections, unlinkTried, unlinkFailed,
                   settingVars, _mesh_min, _mesh_max, cursor_location, stepDetail, apiVars>>

modal(event_type) ==
    LET todo == modal_dispatch(event_type, _current_index, Len(_files_to_process))
    IN /\ handler
       /\ escSeen' = (escSeen \/ event_type = "ESC")
       /\ CASE todo = "cancel" -> _finish(TRUE)
            [] todo = "finish" -> _finish(FALSE)
            [] todo = "process" -> ProcessAndAdvance
            [] OTHER -> UNCHANGED <<backendVars, envVars, import_progress, operatorVars, hostVars,
                                    stepLog, unlinkTried, unlinkFailed, stepDetail, apiVars>>

\* the window manager delivers ESC while the operator is a modal handler
modal_ESC == modal("ESC")

\* the window manager delivers TIMER while the operator's timer is registered
modal_TIMER == _timer /\ modal("TIMER")

Next == execute \/ modal_ESC \/ modal_TIMER

Spec == Init /\ [][Next]_vars

\* the event timer registered by execute (0.01 s) keeps delivering TIMER events
FairSpec == Spec /\ WF_vars(modal_TIMER)

(***************************************************************************)
(* Direct calls of the backend (the panel, the tests): one call of         *)
(* get_model_info or convert_to_stl on the model behind a path, under      *)
(* every engine run.                                                       *)
(***************************************************************************)
\* the operator's own state and the scene before execute
OperatorFresh ==
    /\ otherBatch = NoOtherBatch
    /\ result = "NONE"
    /\ started = FALSE
    /\ handler = FALSE
    /\ _timer = FALSE
    /\ _files_to_process = <<>>
    /\ _current_index = 0
    /\ _temp_files = <<>>
    /\ _all_imported_objects = <<>>
    /\ _target_collection = 0
    /\ objects = InitialObjects
    /\ collections = {}
    /\ collObjects = {}
    /\ tempExists = {}
    /\ tempCount = 0
    /\ reports = <<>>
    /\ stepLog = <<>>
    /\ escSeen = FALSE
    /\ unlinkTried = {}
    /\ unlinkFailed = {}

\* the operator was never invoked: the state every direct use of GmshManager and
\* ImportProgress starts from
OperatorIdle ==
    /\ DefaultSettings
    /\ filesOnDisk = {}
    /\ engineOpen = 0
    /\ source_unit = "AUTO"
    /\ import_to_collection = FALSE
    /\ OperatorFresh

BackendInit ==
    /\ cadModel \in Models
    /\ lastCall = NoCall
    /\ NoApiHistory
    /\ DefaultSettings
    /\ otherBatch = NoOtherBatch
    /\ gmsh_installed \in BOOLEAN
    /\ filesOnDisk = {}
    /\ _gmsh_available = "None"
    /\ engineOpen = 0
    /\ import_progress = NewImportProgress
    /\ source_unit = "AUTO"
    /\ import_to_collection = FALSE
    /\ result = "NONE"
    /\ started = FALSE
    /\ handler = FALSE
    /\ _timer = FALSE
    /\ _files_to_process = <<>>
    /\ _current_index = 0
    /\ _temp_files = <<>>
    /\ _all_imported_objects = <<>>
    /\ _target_collection = 0
    /\ objects = InitialObjects
    /\ collections = {}
    /\ collObjects = {}
    /\ tempExists = {}
    /\ tempCount = 0
    /\ reports = <<>>
    /\ stepLog = <<>>
    /\ escSeen = FALSE
    /\ unlinkTried = {}
    /\ unlinkFailed = {}

\* what stays as it is in a direct call of get_model_info or convert_to_stl
BackendFrame ==
    UNCHANGED <<gmsh_installed, envVars, import_progress, operatorVars, hostVars,
                historyVars, cadModel, availLog, lastReturn, progressCall>>

\* one call of get_model_info on the model, under every engine run
GetModelInfoCall ==
    /\ \E run \in EngineRuns(InfoPlan(cadModel)) :
          LET av == is_available(_gmsh_available, gmsh_installed)
              r == get_model_info(av.value, cadModel, run[1], run[2])
          IN /\ _gmsh_available' = av.cache
             /\ engineOpen' = IF av.value THEN r.open ELSE engineOpen
             /\ lastCall' = [NoCall EXCEPT !.op = "get_model_info", !.available = av.value,
                                           !.failAt = run[1], !.finFails = run[2],
                                           !.info = r.info, !.calls = r.calls,
                                           !.region = r.region, !.exit = r.exit,
                                           !.openBefore = engineOpen]
    /\ BackendFrame

\* one call of convert_to_stl on the model, under every option and engine run
ConvertToStlCall ==
    /\ \E optimize_mesh \in BOOLEAN, healing \in BOOLEAN :
       \E run \in EngineRuns(ConvertPlan(cadModel, optimize_mesh, healing)) :
          LET av == is_available(_gmsh_available, gmsh_installed)
              r == convert_to_stl(av.value, cadModel, optimize_mesh, healing, run[1], run[2])
          IN /\ _gmsh_available' = av.cache
             /\ engineOpen' = IF av.value THEN r.open ELSE engineOpen
             /\ lastCall' = [NoCall EXCEPT !.op = "convert_to_stl", !.available = av.value,
                                           !.optimize_mesh = optimize_mesh,
                                           !.healing = healing,
                                           !.failAt = run[1], !.finFails = run[2],
                                           !.conv = r, !.calls = r.calls,
                                           !.region = r.region,
                                           !.openBefore = engineOpen]
    /\ BackendFrame

CallGetModelInfo == lastCall.op = "none" /\ GetModelInfoCall /\ UNCHANGED prevCall

CallConvertToStl == lastCall.op = "none" /\ ConvertToStlCall /\ UNCHANGED prevCall

BackendNext == CallGetModelInfo \/ CallConvertToStl

SpecBackend == BackendInit /\ [][BackendNext]_vars

(***************************************************************************)
(* Two direct calls of the backend in a row, the second in the process     *)
(* state the first one left (the availability cache, the engine session),  *)
(* on the models of at most one entity and two bounding-box sizes.         *)
(***************************************************************************)
SeqModels ==
    {m \in Models : /\ Len(m.ents) <= 1
                    /\ m.max_dim \in {UNIT_THRESHOLD_CM + 1, UNIT_THRESHOLD_MM + 1}}

SeqInit ==
    /\ OperatorIdle
    /\ cadModel \in SeqModels
    /\ lastCall = NoCall
    /\ NoApiHistory
    /\ gmsh_installed \in BOOLEAN
    /\ _gmsh_available = "None"
    /\ import_progress = NewImportProgress

ThenGetModelInfo ==
    /\ lastCall.op # "none" /\ prevCall.op = "none"
    /\ GetModelInfoCall
    /\ prevCall' = CallSummary(lastCall)

ThenConvertToStl ==
    /\ lastCall.op # "none" /\ prevCall.op = "none"
    /\ ConvertToStlCall
    /\ prevCall' = CallSummary(lastCall)

SeqNext == CallGetModelInfo \/ CallConvertToStl \/ ThenGetModelInfo \/ ThenConvertToStl

SpecSeq == SeqInit /\ [][SeqNext]_vars

(***************************************************************************)
(* Direct calls of the availability API of GmshManager (the preferences    *)
(* panel, the install operator, the tests), while gmsh may be installed or *)
(* removed outside the add-on: at most MaxApiCalls calls that ask          *)
(* is_available between two resets, and at most MaxApiCalls resets.        *)
(***************************************************************************)
AvailInit ==
    /\ OperatorIdle
    /\ cadModel = NoModel
    /\ lastCall = NoCall
    /\ NoApiHistory
    /\ gmsh_installed \in BOOLEAN
    /\ _gmsh_available = "None"
    /\ import_progress = NewImportProgress

AvailFrame ==
    UNCHANGED <<envVars, engineOpen, import_progress, operatorVars, hostVars, historyVars,
                cadModel, lastCall, prevCall, progressCall>>

LogAvailable(log, av) == Append(log, [value |-> av.value, probed |-> av.probed])

CallIsAvailable ==
    LET av == is_available(_gmsh_available, gmsh_installed)
    IN /\ Len(availLog) < MaxApiCalls
       /\ _gmsh_available' = av.cache
       /\ availLog' = LogAvailable(availLog, av)
       /\ lastReturn' = [lastReturn EXCEPT !.op = "is_available",
                                           !.value = IF av.value THEN "True" ELSE "False",
                                           !.probed = av.probed]
       /\ UNCHANGED gmsh_installed
       /\ AvailFrame

reset_cache ==
    /\ lastReturn.resets < MaxApiCalls
    /\ _gmsh_available' = "None"
    /\ availLog' = <<>>
    /\ lastReturn' = [lastReturn EXCEPT !.op = "reset_cache", !.value = "None",
                                        !.probed = FALSE, !.resets = @ + 1]
    /\ UNCHANGED gmsh_installed
    /\ AvailFrame

CallGetVersion ==
    LET av == is_available(_gmsh_available, gmsh_installed)
    IN /\ Len(availLog) < MaxApiCalls
       /\ _gmsh_available' = av.cache
       /\ availLog' = LogAvailable(availLog, av)
       /\ lastReturn' = [lastReturn EXCEPT !.op = "get_version",
                                           !.value = get_version(av.value, gmsh_installed),
                                           !.probed = av.probed]
       /\ UNCHANGED gmsh_installed
       /\ AvailFrame

\* pip with return code 0 leaves gmsh importable or not; any other outcome leaves the
\* environment as it was and skips the reset
install ==
    /\ lastReturn.resets < MaxApiCalls
    /\ \E pip \in PipOutcomes :
          IF pip = "returncode 0"
          THEN \E importable \in BOOLEAN :
                  LET av == is_available("None", importable)
                  IN /\ gmsh_installed' = importable
                     /\ _gmsh_available' = av.cache
                     /\ availLog' = LogAvailable(<<>>, av)
                     /\ lastReturn' = [lastReturn EXCEPT !.op = "install",
                                                         !.value = InstallMessage(pip, av.value),
                                                         !.probed = av.probed,
                                                         !.resets = @ + 1,
                                                         !.pip = pip,
                                                         !.importable = importable,
                                                         !.success = InstallSuccess(pip, av.value),
                                                         !.cacheBefore = _gmsh_available]
          ELSE /\ lastReturn' = [lastReturn EXCEPT !.op = "install",
                                                   !.value = InstallMessage(pip, FALSE),
                                                   !.probed = FALSE,
                                                   !.pip = pip,
                                                   !.importable = gmsh_installed,
                                                   !.success = InstallSuccess(pip, FALSE),
                                                   !.cacheBefore = _gmsh_available]
               /\ UNCHANGED <<gmsh_installed, _gmsh_available, availLog>>
    /\ AvailFrame

\* gmsh is installed or removed outside the add-on: the next `import gmsh` answers
\* differently
EnvironmentChanges ==
    /\ gmsh_installed' = ~gmsh_installed
    /\ UNCHANGED <<_gmsh_available, availLog, lastReturn>>
    /\ AvailFrame

AvailNext ==
    CallIsAvailable \/ reset_cache \/ CallGetVersion \/ install \/ EnvironmentChanges

SpecAvail == AvailInit /\ [][AvailNext]_vars

(***************************************************************************)
(* Direct calls of the ImportProgress methods (the tests, the UI): any     *)
(* sequence of start, update, stop and cancel on one object.               *)
(***************************************************************************)
ProgressTotals == 0..MaxTotal
ProgressIndices == 0..(MaxTotal + 1)
ProgressNames == {"", "test.step", "my part.stp"}
ProgressPhases == {"", "converting", "importing"}

ProgressInit ==
    /\ OperatorIdle
    /\ cadModel = NoModel
    /\ lastCall = NoCall
    /\ NoApiHistory
    /\ gmsh_installed = FALSE
    /\ _gmsh_available = "None"
    /\ import_progress = NewImportProgress

ProgressFrame ==
    UNCHANGED <<backendVars, envVars, operatorVars, hostVars, historyVars, cadModel,
                lastCall, prevCall, availLog, lastReturn>>

CallStart ==
    /\ \E total \in ProgressTotals :
          /\ import_progress' = start(import_progress, total)
          /\ progressCall' = [NoProgressCall EXCEPT !.op = "start", !.total = total,
                                                    !.before = import_progress]
    /\ ProgressFrame

CallUpdate ==
    /\ \E file_index \in ProgressIndices, filename \in ProgressNames,
          phase \in ProgressPhases :
          /\ import_progress' = update(import_progress, file_index, filename, phase)
          /\ progressCall' = [NoProgressCall EXCEPT !.op = "update",
                                                    !.file_index = file_index,
                                                    !.filename = filename,
                                                    !.phase = phase,
                                                    !.before = import_progress]
    /\ ProgressFrame

CallStop ==
    /\ import_progress' = stop(import_progress)
    /\ progressCall' = [NoProgressCall EXCEPT !.op = "stop", !.before = import_progress]
    /\ ProgressFrame

CallCancel ==
    /\ import_progress' = cancel(import_progress)
    /\ progressCall' = [NoProgressCall EXCEPT !.op = "cancel", !.before = import_progress]
    /\ ProgressFrame

ProgressNext == CallStart \/ CallUpdate \/ CallStop \/ CallCancel

SpecProgress == ProgressInit /\ [][ProgressNext]_vars

(***************************************************************************)
(* Properties of the batch driver.                                         *)
(***************************************************************************)
\* the batch has ended: it started and the operator is no longer a modal handler
Ended == started /\ ~handler

\* the files _process_current_file ran on, in order
ProcessedFiles == [i \in 1..Len(stepLog) |-> stepLog[i].file]

\* the temp files registered in the cleanup list during the run
Registered == {stepLog[i].temp : i \in 1..Len(stepLog)} \ {0}

WarningsFor(f) ==
    Cardinality({j \in 1..Len(reports) :
                    reports[j].level = "WARNING" /\ reports[j].file = f})

RECURSIVE ConcatNew(_)
\* the new objects of the files that succeeded, in file order
ConcatNew(log) ==
    IF log = <<>> THEN <<>>
    ELSE (IF Head(log).cause = "ok" THEN Head(log).new ELSE <<>>) \o ConcatNew(Tail(log))

\* C1: whatever files fail, the per-file step has run exactly once on each of the
\* first _current_index files, in list order, and a batch that ended without ESC
\* ended FINISHED with the step run once on every file.
C1_FailureNeverStopsBatch ==
    started =>
        /\ ProcessedFiles = SubSeq(_files_to_process, 1, _current_index)
        /\ (Ended /\ ~escSeen) =>
              (result = "FINISHED" /\ ProcessedFiles = _files_to_process)

C1_Witness ==
    /\ result = "FINISHED"
    /\ Len(stepLog) = 2
    /\ stepLog[1].cause = "convert"
    /\ stepLog[2].cause = "ok"

\* C2: at FINISHED the accumulated object list is the concatenation, in file order,
\* of the new objects of the files that succeeded, and holds no object that was
\* added to the scene while a failed file was processed.
C2_AccumulatedIsConcatenation ==
    (started /\ result = "FINISHED") =>
        /\ _all_imported_objects = ConcatNew(stepLog)
        /\ \A i \in 1..Len(stepLog) :
              stepLog[i].cause # "ok" =>
                 stepLog[i].added \cap Range(_all_imported_objects) = {}

C2_Witness ==
    /\ result = "FINISHED"
    /\ Len(stepLog) = 2
    /\ stepLog[1].cause = "import" /\ stepLog[1].added # {}
    /\ stepLog[2].cause = "ok" /\ Len(stepLog[2].new) = 2

\* C3 (as claimed): every file whose step failed has exactly one WARNING report
\* naming it, and every file whose step succeeded has none.
C3_OneWarningPerFailedFile ==
    \A i \in 1..Len(stepLog) :
        WarningsFor(stepLog[i].file) = IF stepLog[i].result = "ERROR" THEN 1 ELSE 0

\* C4: once the batch has ended (FINISHED or CANCELLED) the cleanup list is empty,
\* unlink was called on every registered temp file that was on disk, every
\* registered temp file whose unlink did not raise is gone, whatever unlink raised
\* before it, and the outcome is CANCELLED exactly when ESC was delivered.
C4_TempFilesCleaned ==
    Ended =>
        /\ _temp_files = <<>>
        /\ \A t \in Registered :
              /\ t \in unlinkTried \/ t \notin tempExists
              /\ t \notin unlinkFailed => t \notin tempExists
        /\ unlinkFailed \subseteq unlinkTried
        /\ result = IF escSeen THEN "CANCELLED" ELSE "FINISHED"

C4_Witness ==
    /\ Ended
    /\ Len(stepLog) = 2
    /\ stepLog[1].temp \in unlinkFailed
    /\ stepLog[2].result = "ERROR"
    /\ stepLog[2].temp \in unlinkTried \ unlinkFailed
    /\ stepLog[2].temp \notin tempExists

\* C5: a step that delivers ESC while files are left ends the batch CANCELLED at
\* once and runs no per-file step: nothing is converted, no temp file is created,
\* no object is appended, the index does not move; and no step follows it.
C5_CancelStopsProcessing ==
    [][(escSeen' /\ _current_index < Len(_files_to_process)) =>
          /\ result' = "CANCELLED" /\ ~handler' /\ ~_timer'
          /\ stepLog' = stepLog
          /\ tempCount' = tempCount
          /\ engineOpen' = engineOpen
          /\ objects' = objects
          /\ _all_imported_objects' = _all_imported_objects
          /\ _current_index' = _current_index]_vars

C5_Witness ==
    /\ escSeen /\ result = "CANCELLED"
    /\ Len(_files_to_process) = 2
    /\ Len(stepLog) = 1 /\ tempCount = 1

\* C6: after a batch ended CANCELLED, the target collection it created is still in
\* bpy.data.collections exactly when it holds an object.
C6_CancelRemovesEmptyCollection ==
    (started /\ result = "CANCELLED" /\ _target_collection # 0) =>
        (_target_collection \in collections <=> collObjects # {})

C6_Witness ==
    /\ started /\ result = "CANCELLED"
    /\ _target_collection # 0
    /\ Len(stepLog) = 1
    /\ collObjects = {}
    /\ _target_collection \notin collections

\* C7: a step that leaves the batch Running with files left is one TIMER tick: it
\* runs the per-file step once, on the file at the current index, and moves the
\* index to the next file, whether the step failed or not.
C7_OneFilePerTick ==
    [][(handler /\ handler' /\ _current_index < Len(_files_to_process)) =>
          /\ Len(stepLog') = Len(stepLog) + 1
          /\ SubSeq(stepLog', 1, Len(stepLog)) = stepLog
          /\ stepLog'[Len(stepLog')].file = _files_to_process[_current_index + 1]
          /\ stepLog'[Len(stepLog')].index = _current_index
          /\ _current_index' = _current_index + 1]_vars

C7_Witness ==
    /\ handler
    /\ _current_index = 2
    /\ Len(stepLog) = 2
    /\ stepLog[1].result = "ERROR"
    /\ stepLog[2].result = "OK"

\* C8: with TIMER events delivered fairly, a started batch eventually stops being
\* a modal handler with result FINISHED or CANCELLED, and eventually either ESC
\* was delivered or the result is FINISHED.
C8_BatchTerminates ==
    /\ handler ~> (Ended /\ result \in {"FINISHED", "CANCELLED"})
    /\ handler ~> (escSeen \/ (Ended /\ result = "FINISHED"))

C8_Witness ==
    /\ Ended /\ ~escSeen /\ result = "FINISHED"
    /\ Len(_files_to_process) = MaxFiles
    /\ \A i \in 1..Len(stepLog) : stepLog[i].result = "ERROR"

\* C9: when gmsh cannot be imported or no selected file exists, execute reports
\* one ERROR and returns CANCELLED with nothing started: no collection, no temp
\* file, import_progress untouched, no timer, no modal handler, no file processed.
C9_ExecuteRejects ==
    (result # "NONE" /\ (~gmsh_installed \/ filesOnDisk = {})) =>
        /\ ~started /\ result = "CANCELLED"
        /\ Len(reports) = 1 /\ reports[1].level = "ERROR"
        /\ collections = {} /\ _target_collection = 0
        /\ tempCount = 0 /\ tempExists = {} /\ _temp_files = <<>>
        /\ import_progress = NewImportProgress
        /\ ~_timer /\ ~handler
        /\ stepLog = <<>> /\ engineOpen = 0

C9_Witness ==
    /\ result = "CANCELLED" /\ ~started
    /\ gmsh_installed /\ filesOnDisk = {}
    /\ import_to_collection
    /\ Len(reports) = 1

(***************************************************************************)
(* Properties of the backend.                                              *)
(***************************************************************************)
CountCalls(calls, c) == Cardinality({i \in 1..Len(calls) : calls[i] = c})

\* C10: a call of get_model_info or convert_to_stl with gmsh available starts by
\* initializing a session and ends by finalizing it, wherever an engine call
\* raised; when finalize itself does not raise it is called exactly once and no
\* session is open when the call returns.
C10_SessionFinalized ==
    (lastCall.op # "none" /\ lastCall.available) =>
        /\ lastCall.calls[1] = "initialize"
        /\ lastCall.calls[Len(lastCall.calls)] = "finalize"
        /\ ~lastCall.finFails =>
              (engineOpen = 0 /\ CountCalls(lastCall.calls, "finalize") = 1)

C10_Witness ==
    /\ lastCall.op = "convert_to_stl"
    /\ lastCall.conv.message = "Failed to generate mesh"
    /\ lastCall.calls[Len(lastCall.calls)] = "finalize"
    /\ engineOpen = 0

\* C12 (as claimed): a get_model_info call in which a raise reached the outer
\* handler (a session call, getEntities or a finalize raised) returns an invalid
\* info: valid False, every count zero, no bounding box.
C12_UncaughtGivesInvalidInfo ==
    (lastCall.op = "get_model_info" /\ lastCall.exit = "outer") =>
        /\ ~lastCall.info.valid
        /\ lastCall.info.entities = 0 /\ lastCall.info.volumes = 0
        /\ lastCall.info.surfaces = 0 /\ lastCall.info.curves = 0
        /\ lastCall.info.points = 0
        /\ lastCall.info.bounding_box = {}

\* C20: whenever convert_to_stl returns success False its part-name list is empty:
\* gmsh unavailable, load failure, mesh-generation failure, write failure, any
\* raise that reaches the outer handler, also for a model whose named entities
\* were read before the failure.
C20_FailureHasNoPartNames ==
    (lastCall.op = "convert_to_stl" /\ ~lastCall.conv.success) =>
        lastCall.conv.part_names = <<>>

C20_Witness ==
    /\ lastCall.op = "convert_to_stl"
    /\ lastCall.region = "generate"
    /\ ~lastCall.conv.success
    /\ \E i \in 1..Len(cadModel.ents) : cadModel.ents[i].name # ""
    /\ CountCalls(lastCall.calls, "model.getEntityName") = Len(cadModel.ents)
    /\ lastCall.conv.part_names = <<>>

(***************************************************************************)
(* Properties of ImportProgress.                                           *)
(***************************************************************************)
\* C14: progress_percent is 0 whenever total_files is 0, whatever the index and the
\* phase, and for total_files >= 1 it never exceeds 100.
C14_PercentZeroOrCapped ==
    /\ import_progress.total_files = 0 => progress_percent(import_progress) = <<0, 1>>
    /\ import_progress.total_files >= 1 =>
          RatLeq(progress_percent(import_progress), <<100, 1>>)

C14_Witness ==
    /\ import_progress.total_files = 1
    /\ import_progress.current_file = 2
    /\ import_progress.phase = "converting"
    /\ RatEq(progress_percent(import_progress), <<100, 1>>)

\* C15: for a fixed total_files >= 1 progress_percent does not decrease when
\* current_file increases, whatever the phase before and after: for the update
\* just made, and for every pair of indices and phases put into the object.
C15_PercentMonotone ==
    import_progress.total_files >= 1 =>
        /\ (progressCall.op = "update"
              /\ progressCall.before.current_file < import_progress.current_file) =>
                 RatLeq(progress_percent(progressCall.before),
                        progress_percent(import_progress))
        /\ \A i \in ProgressIndices, j \in ProgressIndices :
           \A pi \in ProgressPhases, pj \in ProgressPhases :
              i < j =>
                 RatLeq(progress_percent([import_progress EXCEPT !.current_file = i,
                                                                 !.phase = pi]),
                        progress_percent([import_progress EXCEPT !.current_file = j,
                                                                 !.phase = pj]))

C15_Witness ==
    /\ progressCall.op = "update"
    /\ import_progress.total_files = 2
    /\ progressCall.before.current_file = 0 /\ progressCall.before.phase = "converting"
    /\ import_progress.current_file = 1 /\ import_progress.phase = "importing"
    /\ RatLess(progress_percent(progressCall.before), progress_percent(import_progress))

\* C16: for total_files >= 1, progress_percent is min(100, (current_file + 0.5) /
\* total_files * 100) while the phase is converting and min(100, current_file /
\* total_files * 100) in any other phase; while converting a file below the total
\* it lies strictly between the file-boundary values of that file and the next.
C16_ConvertingAddsHalfFile ==
    LET p == import_progress
        i == p.current_file
        t == p.total_files
        boundary(k) == progress_percent([p EXCEPT !.current_file = k, !.phase = ""])
    IN t >= 1 =>
        /\ RatEq(progress_percent(p),
                 RatMin(<<100, 1>>,
                        IF p.phase = "converting" THEN <<(2 * i + 1) * 100, 2 * t>>
                        ELSE <<i * 100, t>>))
        /\ (p.phase = "converting" /\ i < t) =>
              /\ RatLess(boundary(i), progress_percent(p))
              /\ RatLess(progress_percent(p), boundary(i + 1))

C16_Witness ==
    /\ import_progress.total_files = 2
    /\ import_progress.current_file = 0
    /\ import_progress.phase = "converting"
    /\ RatLess(<<0, 1>>, progress_percent(import_progress))
    /\ RatLess(progress_percent(import_progress), <<50, 1>>)

\* C17: status_text is empty whenever the progress is not running; whenever it is
\* running it contains 'Converting' when the phase is converting and 'Importing'
\* when it is importing, the current file name unchanged, and
\* '<current_file + 1>/<total_files>'.
C17_StatusText ==
    LET p == import_progress
        t == status_text(p)
    IN /\ ~p.is_running => t = <<>>
       /\ p.is_running =>
             /\ p.phase = "converting" => "Converting" \in Range(t)
             /\ p.phase = "importing" => "Importing" \in Range(t)
             /\ p.current_filename \in Range(t)
             /\ \E k \in 1..(Len(t) - 2) :
                   /\ t[k] = ToString(p.current_file + 1)
                   /\ t[k + 1] = "/"
                   /\ t[k + 2] = ToString(p.total_files)

C17_Witness ==
    /\ import_progress.is_running
    /\ import_progress.phase = "importing"
    /\ import_progress.current_filename = "my part.stp"
    /\ import_progress.current_file = 1
    /\ import_progress.total_files = 2
    /\ status_text(import_progress)
          = <<"Ladder: ", "Importing", " ", "my part.stp", " (", "2", "/", "2", ")">>

\* C18: after start(n), called on an ImportProgress in any state, total_files is n,
\* current_file 0, current_filename and phase empty, is_running True and
\* was_cancelled False.
C18_StartResets ==
    progressCall.op = "start" =>
        import_progress =
            [total_files |-> progressCall.total, current_file |-> 0,
             current_filename |-> "", phase |-> "", is_running |-> TRUE,
             was_cancelled |-> FALSE]

C18_Witness ==
    /\ progressCall.op = "start"
    /\ progressCall.total = 2
    /\ progressCall.before.was_cancelled
    /\ progressCall.before.current_file > 0
    /\ progressCall.before.phase = "converting"
    /\ ~import_progress.was_cancelled /\ import_progress.is_running

\* C19: stop() changes only is_running (to False), cancel() only is_running (to
\* False) and was_cancelled (to True), update() only current_file,
\* current_filename and phase (to its arguments); every other field is as before.
C19_MethodFrames ==
    LET before == progressCall.before IN
    /\ progressCall.op = "stop" =>
          import_progress = [before EXCEPT !.is_running = FALSE]
    /\ progressCall.op = "cancel" =>
          import_progress = [before EXCEPT !.is_running = FALSE, !.was_cancelled = TRUE]
    /\ progressCall.op = "update" =>
          import_progress = [before EXCEPT !.current_file = progressCall.file_index,
                                           !.current_filename = progressCall.filename,
                                           !.phase = progressCall.phase]

C19_Witness ==
    /\ progressCall.op = "stop"
    /\ progressCall.before.was_cancelled
    /\ progressCall.before.current_file = 1
    /\ progressCall.before.total_files = 2
    /\ import_progress.was_cancelled
    /\ ~import_progress.is_running

PrevLoadFailed == prevCall.op # "none" /\ prevCall.region = "load" /\ ~prevCall.finFails

\* C11: a call whose load raises returns (it leaves by a return statement):
\* get_model_info returns valid False with zero entities, convert_to_stl returns
\* success False with no part names; and the call that follows it starts with no
\* engine session open and returns what the same call returns in a fresh process.
C11_LoadFailureIsContained ==
    /\ (lastCall.op = "get_model_info" /\ lastCall.region = "load") =>
          /\ lastCall.exit \in {"load", "outer"}
          /\ ~lastCall.info.valid /\ lastCall.info.entities = 0
    /\ (lastCall.op = "convert_to_stl" /\ lastCall.region = "load") =>
          /\ ~lastCall.conv.success /\ lastCall.conv.part_names = <<>>
    /\ PrevLoadFailed =>
          /\ lastCall.openBefore = 0
          /\ lastCall.available = gmsh_installed
          /\ lastCall.op = "get_model_info" =>
                lastCall.info = get_model_info(gmsh_installed, cadModel, lastCall.failAt,
                                               lastCall.finFails).info
          /\ lastCall.op = "convert_to_stl" =>
                lastCall.conv = convert_to_stl(gmsh_installed, cadModel,
                                               lastCall.optimize_mesh, lastCall.healing,
                                               lastCall.failAt, lastCall.finFails)

C11_Witness ==
    /\ PrevLoadFailed
    /\ prevCall.op = "get_model_info"
    /\ lastCall.op = "convert_to_stl"
    /\ lastCall.conv.success
    /\ lastCall.conv.part_names # <<>>
    /\ lastCall.openBefore = 0 /\ engineOpen = 0

(***************************************************************************)
(* Further properties of the backend.                                      *)
(***************************************************************************)
\* C21: every info get_model_info returns with valid False has zero points, curves,
\* surfaces and volumes and no bounding box, whichever return it left by; and a
\* bounding box that is present has its min, max and size together.
C21_InvalidInfoIsEmpty ==
    lastCall.op = "get_model_info" =>
        /\ ~lastCall.info.valid =>
              /\ lastCall.info.points = 0 /\ lastCall.info.curves = 0
              /\ lastCall.info.surfaces = 0 /\ lastCall.info.volumes = 0
              /\ lastCall.info.bounding_box = {}
        /\ lastCall.info.bounding_box # {} =>
              {kv[1] : kv \in lastCall.info.bounding_box} = {"min", "max", "size"}

C21_Witness ==
    /\ lastCall.op = "get_model_info"
    /\ lastCall.available
    /\ lastCall.exit = "load"
    /\ Len(cadModel.ents) = MaxEnts
    /\ ~lastCall.info.valid
    /\ lastCall.info.bounding_box = {}

\* C22: a call made while gmsh is not available makes no engine call (no session is
\* initialised, nothing is written): convert_to_stl returns success False with the
\* not-installed message and no part names, get_model_info the initial info.
C22_UnavailableReturnsAtOnce ==
    (lastCall.op # "none" /\ ~lastCall.available) =>
        /\ lastCall.calls = <<>>
        /\ engineOpen = 0
        /\ lastCall.op = "convert_to_stl" =>
              /\ ~lastCall.conv.success /\ ~lastCall.conv.wrote
              /\ lastCall.conv.message = "gmsh is not installed"
              /\ lastCall.conv.part_names = <<>>
        /\ lastCall.op = "get_model_info" =>
              (lastCall.info = EmptyInfo /\ lastCall.exit = "unavailable")

C22_Witness ==
    /\ lastCall.op = "convert_to_stl"
    /\ ~lastCall.available /\ ~gmsh_installed
    /\ Len(cadModel.ents) = MaxEnts
    /\ ~lastCall.conv.success
    /\ lastCall.calls = <<>>

\* C24: whenever get_model_info got a bounding box, the estimated unit is a function
\* of its largest extent d alone (here in tenths of a unit): MILLIMETERS above 1000,
\* CENTIMETERS above 10 up to 1000, METERS above 0.1 up to 10, MILLIMETERS up to 0.1.
C24_UnitFromLargestExtent ==
    (lastCall.op = "get_model_info" /\ lastCall.info.bounding_box # {}) =>
        LET d == cadModel.max_dim
        IN lastCall.info.estimated_unit =
              (IF d > 10000 THEN "MILLIMETERS"
               ELSE IF d > 100 /\ d <= 10000 THEN "CENTIMETERS"
               ELSE IF d > 1 /\ d <= 100 THEN "METERS"
               ELSE "MILLIMETERS")

C24_Witness ==
    /\ lastCall.op = "get_model_info"
    /\ lastCall.info.bounding_box # {}
    /\ cadModel.max_dim = 10000
    /\ lastCall.info.estimated_unit = "CENTIMETERS"

\* the positions of the calls of a set in a call log
Positions(calls, ops) == {i \in 1..Len(calls) : calls[i] \in ops}

\* every call of the first set is made before every call of the second
AllBefore(calls, first, second) ==
    \A i \in Positions(calls, first), j \in Positions(calls, second) : i < j

LoadOps == {"occ.importShapes", "occ.synchronize", "merge"}
MeshOps == Range(MeshOptionCalls(TRUE))

\* C27: in every convert_to_stl call the engine calls are made in the order
\* initialize, load, mesh options, generate(2), write, finalize; generate is called
\* only when the load calls returned, write only when generate returned, and
\* success is returned only when write returned.
C27_ConvertCallOrder ==
    (lastCall.op = "convert_to_stl" /\ lastCall.available) =>
        LET calls == lastCall.calls IN
        /\ Positions(calls, {"initialize"}) = {1}
        /\ AllBefore(calls, {"initialize"}, LoadOps)
        /\ AllBefore(calls, LoadOps, MeshOps)
        /\ AllBefore(calls, MeshOps, {"mesh.generate:2"})
        /\ AllBefore(calls, {"mesh.generate:2"}, {"write"})
        /\ AllBefore(calls, {"write"}, {"finalize"})
        /\ calls[Len(calls)] = "finalize"
        /\ "mesh.generate:2" \in Range(calls) =>
              lastCall.region \notin {"session", "load"}
        /\ "write" \in Range(calls) =>
              lastCall.region \notin {"session", "load", "meshopts", "generate"}
        /\ lastCall.conv.success =>
              /\ "write" \in Range(calls) /\ lastCall.region # "write"
              /\ MeshOps \cap Range(calls) # {}

C27_Witness ==
    /\ lastCall.op = "convert_to_stl"
    /\ lastCall.conv.success
    /\ lastCall.optimize_mesh /\ lastCall.healing /\ cadModel.cad
    /\ Len(cadModel.ents) = MaxEnts
    /\ CountCalls(lastCall.calls, "write") = 1

\* C28 (as claimed): whenever healing is requested and a load call is made, the
\* four repair options were all set before it, whichever load path is taken; when
\* healing is not requested none of them is set.
C28_HealingOnEveryLoadPath ==
    (lastCall.op = "convert_to_stl" /\ lastCall.available) =>
        LET calls == lastCall.calls IN
        /\ (lastCall.healing /\ LoadOps \cap Range(calls) # {}) =>
              /\ Range(HealingOptions) \subseteq Range(calls)
              /\ AllBefore(calls, Range(HealingOptions), LoadOps)
        /\ ~lastCall.healing => Range(HealingOptions) \cap Range(calls) = {}

\* C28 (amended): on the shape-import path (.step .stp .iges .igs .brep .brp) with
\* healing requested, the four repair options are all set before importShapes; on
\* the merge path, and whenever healing is not requested, none of them is set.
C28_HealingOnShapeImport ==
    (lastCall.op = "convert_to_stl" /\ lastCall.available) =>
        LET calls == lastCall.calls IN
        /\ (lastCall.healing /\ cadModel.cad /\ "occ.importShapes" \in Range(calls)) =>
              /\ Range(HealingOptions) \subseteq Range(calls)
              /\ AllBefore(calls, Range(HealingOptions), LoadOps)
        /\ (~lastCall.healing \/ ~cadModel.cad) =>
              Range(HealingOptions) \cap Range(calls) = {}

C28_Witness ==
    /\ lastCall.op = "convert_to_stl"
    /\ lastCall.healing /\ cadModel.cad
    /\ lastCall.conv.success
    /\ Range(HealingOptions) \subseteq Range(lastCall.calls)

(***************************************************************************)
(* Properties of install.                                                  *)
(***************************************************************************)
\* what every install call does, whatever pip did: it returns a flag and a message;
\* a timeout, a non-zero exit and an exception of the subprocess each give False
\* with their own message; True is returned exactly when pip exited 0 and the
\* probe made after the reset found gmsh importable
InstallReturns ==
    /\ lastReturn.pip \in PipOutcomes
    /\ lastReturn.pip = "TimeoutExpired" =>
          (~lastReturn.success /\ lastReturn.value = "Installation timed out")
    /\ lastReturn.pip = "returncode 1" =>
          (~lastReturn.success /\ lastReturn.value = "pip install failed")
    /\ lastReturn.pip = "Exception" =>
          (~lastReturn.success /\ lastReturn.value = "Installation error")
    /\ lastReturn.success <=>
          (lastReturn.pip = "returncode 0" /\ lastReturn.probed /\ lastReturn.importable)

MeshSizeMins == {1, 100, 100000}

\* the mesh_size_max values explored: its min, default and max (lines 729-735)
MeshSizeMaxs == {10, 10000, 1000000}

SettingsInit ==
    /\ OperatorFresh
    /\ cadModel = NoModel
    /\ lastCall = NoCall
    /\ NoApiHistory
    /\ gmsh_installed \in BOOLEAN
    /\ filesOnDisk \in SUBSET Files
    /\ _gmsh_available = "None"
    /\ engineOpen = 0
    /\ import_progress = NewImportProgress
    /\ source_unit = "AUTO"
    /\ import_to_collection \in BOOLEAN
    /\ mesh_quality \in MeshQualities
    /\ mesh_size_min \in MeshSizeMins
    /\ mesh_size_max \in MeshSizeMaxs
    /\ use_part_names = FALSE
    /\ set_origin = "NONE"
    /\ _mesh_min = 100
    /\ _mesh_max = 10000
    /\ cursor_location = WorldOrigin
    /\ stepDetail = NoDetail

SettingsNext == execute

SpecSettings == SettingsInit /\ [][SettingsNext]_vars

\* C25: once execute has started a batch, with a quality preset other than CUSTOM
\* the resolved element sizes are that preset's pair of MESH_QUALITY_PRESETS and
\* satisfy 0 < min < max; with CUSTOM they are the user's mesh_size_min and
\* mesh_size_max, unchanged (whatever their order).
C25_ResolvedMeshSize ==
    started =>
        IF mesh_quality = "CUSTOM"
        THEN _mesh_min = mesh_size_min /\ _mesh_max = mesh_size_max
        ELSE /\ <<_mesh_min, _mesh_max>> = MESH_QUALITY_PRESETS[mesh_quality]
             /\ 0 < _mesh_min
             /\ _mesh_min < _mesh_max

C25_Witness ==
    /\ started
    /\ mesh_quality = "CUSTOM"
    /\ mesh_size_min = 100000 /\ mesh_size_max = 10
    /\ _mesh_min = 100000 /\ _mesh_max = 10

(***************************************************************************)
(* The per-file step in detail: the unit scale, the names assigned to the  *)
(* new objects and the statements that touch the 3D cursor, for one file   *)
(* of a running batch whose conversion and STL import succeed. Names are   *)
(* sequences of characters; a name is the value the step assigns to        *)
(* obj.name. The bpy.ops operators of the post-processing loop return.     *)
(***************************************************************************)
\* the characters of a part name
Chars(name) ==
    CASE name = "a-1" -> <<"a", "-", "1">>
      [] name = "b c" -> <<"b", " ", "c">>
      [] OTHER -> <<>>

\* input_path.stem of FileName(f)
Stem(f) == <<"p", "a", "r", "t", ToString(f)>>

\* the characters `[\w\-_]` matches, among those of the names explored
SafeChars == {"a", "b", "c", "p", "r", "t", "0", "1", "2", "3", "4", "-", "_"}

\* `re.sub(r'[^\w\-_]', '_', part_name)`
CleanName(chars) ==
    [i \in 1..Len(chars) |-> IF chars[i] \in SafeChars THEN chars[i] ELSE "_"]

\* `f"{base_name}_{i:03d}"`
IndexedName(base_name, i) ==
    base_name \o <<"_", ToString((i \div 100) % 10), ToString((i \div 10) % 10),
                   ToString(i % 10)>>

\* mutant: a single new object is named after the file whatever the part names
ObjectNames_singleKeepsBase(base_name, part_names_used, part_names, k) ==
    [j \in 1..k |->
        IF k = 1 THEN base_name
        ELSE IF part_names_used /\ part_names # <<>> /\ j - 1 < Len(part_names)
        THEN CleanName(Chars(part_names[j]))
        ELSE IndexedName(base_name, j - 1)]

\* the names assigned to new_objects[0..k-1] (lines 1091-1113)
ObjectNames(base_name, part_names_used, part_names, k) ==
    [j \in 1..k |->
        IF part_names_used /\ part_names # <<>>
        THEN (IF j - 1 < Len(part_names) THEN CleanName(Chars(part_names[j]))
              ELSE IndexedName(base_name, j - 1))
        ELSE IF k = 1 THEN base_name
        ELSE IndexedName(base_name, j - 1)]

\* obj.type of a new object
ObjectTypes == {"MESH", "EMPTY"}

\* mutant: saved_cursor is the cursor's own vector, not a copy of it
SavedCursor_aliased(location_at_save, location_now) == location_now

\* saved_cursor when line 1165 reads it: the copy made of the location at line 1162
SavedCursor(location_at_save, location_now) == location_at_save

\* the set_origin statements for one MESH object (lines 1154-1165), each with the
\* cursor location after it
OriginStatements(mode, cursor, obj) ==
    CASE mode = "GEOMETRY" ->
           <<[object |-> obj, stmt |-> "origin_set:ORIGIN_GEOMETRY:MEDIAN", cursor |-> cursor]>>
      [] mode = "BOUNDS" ->
           <<[object |-> obj, stmt |-> "origin_set:ORIGIN_GEOMETRY:BOUNDS", cursor |-> cursor]>>
      [] mode = "CURSOR" ->
           <<[object |-> obj, stmt |-> "origin_set:ORIGIN_CURSOR", cursor |-> cursor]>>
      [] mode = "WORLD" ->
           <<[object |-> obj, stmt |-> "cursor.location = (0, 0, 0)", cursor |-> WorldOrigin],
             [object |-> obj, stmt |-> "origin_set:ORIGIN_CURSOR", cursor |-> WorldOrigin],
             [object |-> obj, stmt |-> "cursor.location = saved_cursor",
              cursor |-> SavedCursor(cursor, WorldOrigin)]>>
      [] OTHER -> <<>>

\* the cursor location after the statements of `trace`
CursorAfter(cursor, trace) == IF trace = <<>> THEN cursor ELSE trace[Len(trace)].cursor

RECURSIVE PostProcess(_, _, _, _)
\* the post-processing loop over new_objects[i-1..]: objects that are not meshes
\* are skipped
PostProcess(mode, cursor, types, i) ==
    IF i > Len(types) THEN <<>>
    ELSE IF types[i] # "MESH" THEN PostProcess(mode, cursor, types, i + 1)
    ELSE LET stmts == OriginStatements(mode, cursor, i)
         IN stmts \o PostProcess(mode, CursorAfter(cursor, stmts), types, i + 1)

\* the models behind the file: solids, named or not, of every estimated unit
StepModels ==
    {m \in Models : /\ m.cad
                    /\ \A i \in 1..Len(m.ents) : m.ents[i].dim = 3
                    /\ m.max_dim \in {UNIT_THRESHOLD_M + 1, UNIT_THRESHOLD_CM + 1,
                                      UNIT_THRESHOLD_MM + 1}}

\* where the 3D cursor can be when the batch runs
CursorLocations == {WorldOrigin, <<1, 2, 3>>}

\* what get_model_info can return for the file
StepInfoOutcomes(m) ==
    {[estimated_unit |-> r.info.estimated_unit, open |-> r.open] :
        r \in {get_model_info(TRUE, m, run[1], run[2]) : run \in EngineRuns(InfoPlan(m))}}

\* what convert_to_stl can return for the file when it succeeds (optimize_mesh and
\* healing at their defaults)
StepConvertOutcomes(m) ==
    {c \in {[success |-> r.success, message |-> r.message, part_names |-> r.part_names,
             open |-> r.open] :
                r \in {convert_to_stl(TRUE, m, FALSE, FALSE, run[1], run[2]) :
                          run \in EngineRuns(ConvertPlan(m, FALSE, FALSE))}} : c.success}

\* a batch of one file, as execute leaves it, under every unit, naming and origin
\* setting
StepInit ==
    /\ cadModel \in StepModels
    /\ lastCall = NoCall
    /\ NoApiHistory
    /\ gmsh_installed = TRUE
    /\ filesOnDisk = {1}
    /\ otherBatch = NoOtherBatch
    /\ _gmsh_available = "True"
    /\ engineOpen = 0
    /\ import_progress = start(NewImportProgress, 1)
    /\ source_unit \in SourceUnits
    /\ import_to_collection = FALSE
    /\ result = "RUNNING_MODAL"
    /\ started = TRUE
    /\ handler = TRUE
    /\ _timer = TRUE
    /\ _files_to_process = <<1>>
    /\ _current_index = 0
    /\ _temp_files = <<>>
    /\ _all_imported_objects = <<>>
    /\ _target_collection = 0
    /\ objects = InitialObjects
    /\ collections = {}
    /\ collObjects = {}
    /\ tempExists = {}
    /\ tempCount = 0
    /\ reports = <<>>
    /\ stepLog = <<>>
    /\ escSeen = FALSE
    /\ unlinkTried = {}
    /\ unlinkFailed = {}
    /\ mesh_quality = "NORMAL"
    /\ mesh_size_min = 100
    /\ mesh_size_max = 10000
    /\ use_part_names \in BOOLEAN
    /\ set_origin \in OriginModes
    /\ _mesh_min = 100
    /\ _mesh_max = 10000
    /\ cursor_location \in CursorLocations
    /\ stepDetail = NoDetail

\* the TIMER tick that processes the file: _process_current_file on a conversion
\* and an import that succeed, with what it computes on the way, then the index
ProcessFileInDetail ==
    /\ handler /\ _timer
    /\ _current_index < Len(_files_to_process)
    /\ \E info \in (IF source_unit = "AUTO" THEN StepInfoOutcomes(cadModel) ELSE {NoInfo}),
          conv \in StepConvertOutcomes(cadModel), k \in 1..MaxNewObjects :
          \E types \in [1..k -> ObjectTypes] :
             LET f == _files_to_process[_current_index + 1]
                 trace == PostProcess(set_origin, cursor_location, types, 1)
             IN /\ _process_current_file(FALSE, info, conv, FALSE, FALSE, k)
                /\ stepDetail' =
                      [done |-> TRUE,
                       estimated_unit |-> info.estimated_unit,
                       unit_scale |-> UnitScaleFor(source_unit, info.estimated_unit),
                       base_name |-> Stem(f),
                       part_names |-> conv.part_names,
                       types |-> types,
                       names |-> ObjectNames(Stem(f), use_part_names, conv.part_names, k),
                       cursorBefore |-> cursor_location,
                       trace |-> trace]
                /\ cursor_location' = CursorAfter(cursor_location, trace)
    /\ _current_index' = NextIndex(_current_index, stepLog'[Len(stepLog')].result)
    /\ UNCHANGED <<gmsh_installed, envVars, _gmsh_available, source_unit,
                   import_to_collection, result, started, handler, _timer, _files_to_process,
                   _target_collection, collections, escSeen, unlinkTried, unlinkFailed,
                   settingVars, _mesh_min, _mesh_max, apiVars>>

StepNext == ProcessFileInDetail

SpecStep == StepInit /\ [][StepNext]_vars

\* C26 (as claimed): the unit scale of the step is, under AUTO, the UNIT_SCALES
\* entry of the unit get_model_info estimated, and the millimetre scale 0.001
\* whenever the estimate is not a unit of the table; with an explicit unit it is
\* the entry of that unit.
C26_UnitScale ==
    stepDetail.done =>
        stepDetail.unit_scale =
            IF source_unit = "AUTO"
            THEN (IF stepDetail.estimated_unit \in DOMAIN UNIT_SCALES
                  THEN UNIT_SCALES[stepDetail.estimated_unit]
                  ELSE UNIT_SCALES["MILLIMETERS"])
            ELSE UNIT_SCALES[source_unit]

\* name is the part name p with every character outside the safe set replaced by "_"
IsSanitized(name, p) ==
    /\ Len(name) = Len(p)
    /\ \A c \in 1..Len(p) : name[c] = (IF p[c] \in SafeChars THEN p[c] ELSE "_")

\* name is 'B_NNN' for the index i < 10
IsIndexed(name, B, i) == name = B \o <<"_", "0", "0", ToString(i)>>

\* C29: after a successful import of a file with base name B that produced the new
\* objects o_0..o_(k-1): when use_part_names is set and part names p_0..p_(m-1),
\* m >= 1, were discovered, o_i is given the name sanitize(p_i) for i < m and
\* 'B_NNN' (NNN = i, three digits) for i >= m; otherwise a single object is given
\* the name B, and of several objects each o_i is given 'B_NNN'.
C29_ObjectNames ==
    (stepDetail.done /\ stepLog[Len(stepLog)].result = "OK") =>
        LET B == Stem(stepLog[Len(stepLog)].file)
            k == Len(stepLog[Len(stepLog)].new)
            p == stepDetail.part_names
            m == Len(p)
        IN /\ Len(stepDetail.names) = k
           /\ \A j \in 1..k :
                 IF use_part_names /\ m >= 1
                 THEN IF j - 1 < m
                      THEN IsSanitized(stepDetail.names[j], Chars(p[j]))
                      ELSE IsIndexed(stepDetail.names[j], B, j - 1)
                 ELSE IF k = 1 THEN stepDetail.names[j] = B
                 ELSE IsIndexed(stepDetail.names[j], B, j - 1)

C29_Witness ==
    /\ stepDetail.done
    /\ use_part_names
    /\ stepDetail.part_names = <<"b c">>
    /\ stepDetail.names = << <<"b", "_", "c">>,
                            <<"p", "a", "r", "t", "1", "_", "0", "0", "1">> >>

\* the statements of the trace that belong to MESH object obj
StatementsOf(trace, obj) == {j \in 1..Len(trace) : trace[j].object = obj}

\* C30: with set_origin 'WORLD', once the step has returned the 3D cursor is where
\* it was before the step, for every number of new mesh objects; each mesh object
\* has its origin set with the cursor at the world origin, and the cursor is away
\* from its prior location only from the statement that moves it to the world
\* origin to the origin_set of the same object.
C30_CursorRestored ==
    (stepDetail.done /\ set_origin = "WORLD") =>
        LET trace == stepDetail.trace
            meshes == {i \in 1..Len(stepDetail.types) : stepDetail.types[i] = "MESH"}
        IN /\ cursor_location = stepDetail.cursorBefore
           /\ \A i \in meshes :
                 \E j \in StatementsOf(trace, i) :
                    /\ trace[j].stmt = "origin_set:ORIGIN_CURSOR"
                    /\ trace[j].cursor = WorldOrigin
                    /\ \A h \in StatementsOf(trace, i) : h > j =>
                          trace[h].cursor = stepDetail.cursorBefore
           /\ \A j \in 1..Len(trace) :
                 /\ trace[j].object \in meshes
                 /\ trace[j].cursor # stepDetail.cursorBefore =>
                       /\ trace[j].cursor = WorldOrigin
                       /\ trace[j].stmt \in {"cursor.location = (0, 0, 0)",
                                              "origin_set:ORIGIN_CURSOR"}
                 /\ (j = Len(trace) \/ trace[j + 1].object # trace[j].object) =>
                       trace[j].cursor = stepDetail.cursorBefore

C30_Witness ==
    /\ stepDetail.done
    /\ set_origin = "WORLD"
    /\ stepDetail.types = <<"MESH", "MESH">>
    /\ stepDetail.cursorBefore = <<1, 2, 3>>
    /\ Len(stepDetail.trace) = 6
    /\ cursor_location = <<1, 2, 3>>

(***************************************************************************)
(* Further properties of the batch driver.                                 *)
(***************************************************************************)
\* the step of the last transition, when that transition ran _process_current_file
StepTaken == Len(stepLog') = Len(stepLog) + 1

\* C31: a tick whose conversion reported success but left no output file does not
\* call stl_import and fails the file; a tick whose stl_import raises, or returns
\* with no new object in the scene, fails the file too; in each case modal returns
\* RUNNING_MODAL (nothing is raised), the accumulated list is as before and the
\* index has moved to the next file.
C31_ImportFailureIsContained ==
    [][(StepTaken /\ stepLog'[Len(stepLog')].cause \in {"nooutput", "import", "noobjects"}) =>
          LET e == stepLog'[Len(stepLog')]
          IN /\ e.result = "ERROR"
             /\ e.cause = "nooutput" => (~e.import_called /\ objects' = objects)
             /\ e.cause \in {"import", "noobjects"} => e.import_called
             /\ e.cause = "noobjects" => objects' = objects
             /\ _all_imported_objects' = _all_imported_objects
             /\ _current_index' = _current_index + 1
             /\ handler' /\ _timer' /\ result' = "RUNNING_MODAL"]_vars

C31_Witness ==
    /\ handler
    /\ Len(stepLog) = 2
    /\ stepLog[1].cause = "nooutput" /\ ~stepLog[1].import_called
    /\ stepLog[2].cause = "import" /\ stepLog[2].added # {}
    /\ _all_imported_objects = <<>>
    /\ _current_index = 2

\* C32: while the batch runs, every temp file it created is in the cleanup list,
\* whether the file's conversion or import failed afterwards or not; so every temp
\* file that is on disk is in the cleanup list.
C32_TempFilesRegistered ==
    handler =>
        /\ \A i \in 1..Len(stepLog) :
              stepLog[i].temp # 0 => stepLog[i].temp \in Range(_temp_files)
        /\ tempExists \subseteq Range(_temp_files)

C32_Witness ==
    /\ handler
    /\ Len(stepLog) = 2
    /\ stepLog[1].cause = "convert" /\ stepLog[1].temp \in tempExists
    /\ stepLog[2].cause = "import" /\ stepLog[2].temp \in tempExists
    /\ Range(_temp_files) = {stepLog[1].temp, stepLog[2].temp}

(***************************************************************************)
(* Properties of the part names.                                           *)
(***************************************************************************)
\* the entity names the engine handed out during call c: those of the
\* getEntityName calls that returned, the empty ones left out
DiscoveredNames(c) ==
    LET asked == Cardinality({i \in 1..Len(c.calls) : c.calls[i] = "model.getEntityName"})
        got == IF c.region = "names" /\ c.calls[c.failAt] = "model.getEntityName"
               THEN asked - 1 ELSE asked
    IN AllNames(EntityNames(cadModel.ents, got), <<>>)

\* the position of the first occurrence of n in names
FirstAt(names, n) == CHOOSE i \in 1..Len(names) : names[i] = n /\ \A j \in 1..(i - 1) : names[j] # n

\* list holds every name of names exactly once, in order of first appearance
OnceEachInOrder(list, names) ==
    /\ Range(list) = Range(names)
    /\ \A a, b \in 1..Len(list) :
          a < b => (list[a] # list[b] /\ FirstAt(names, list[a]) < FirstAt(names, list[b]))

\* C33 (as claimed): the part names of get_model_info, and those of a convert_to_stl
\* that succeeded, hold every discovered name exactly once, in order of first
\* appearance; and an engine failure while the names are read does not fail the
\* call.
C33_PartNamesOnceEach ==
    /\ (lastCall.op = "get_model_info" /\ lastCall.available) =>
          /\ OnceEachInOrder(lastCall.info.part_names, DiscoveredNames(lastCall))
          /\ (lastCall.region = "names" /\ ~lastCall.finFails) =>
                (lastCall.info.valid /\ lastCall.exit = "normal")
    /\ (lastCall.op = "convert_to_stl" /\ lastCall.available) =>
          /\ lastCall.conv.success =>
                OnceEachInOrder(lastCall.conv.part_names, DiscoveredNames(lastCall))
          /\ (lastCall.region = "names" /\ ~lastCall.finFails) => lastCall.conv.success

\* what holds of get_model_info alone: its part names hold every discovered name
\* once, in order of first appearance
InfoPartNamesOnceEach ==
    (lastCall.op = "get_model_info" /\ lastCall.available) =>
        OnceEachInOrder(lastCall.info.part_names, DiscoveredNames(lastCall))

\* C34: in a batch of N files the driver's index and import_progress.current_file
\* stay within 0..N and import_progress.total_files is N; an index is N only when
\* the per-file step has run on every file; and no per-file step was entered with
\* index N.
C34_IndexInRange ==
    started =>
        LET N == Len(_files_to_process)
        IN /\ _current_index \in 0..N
           /\ import_progress.current_file \in 0..N
           /\ import_progress.total_files = N
           /\ (_current_index = N \/ import_progress.current_file = N) =>
                 ProcessedFiles = _files_to_process
           /\ \A i \in 1..Len(stepLog) : stepLog[i].index \in 0..(N - 1)

C34_Witness ==
    /\ handler
    /\ Len(_files_to_process) = 2
    /\ _current_index = 2
    /\ import_progress.current_file = 1
    /\ Len(stepLog) = 2

(***************************************************************************)
(* A session: the module-level import_progress is used directly (earlier   *)
(* batches, the panel, the tests) in any order before the operator is      *)
(* invoked, then one batch runs on it. gmsh is installed and the unit is   *)
(* explicit.                                                               *)
(***************************************************************************)
SessionInit ==
    /\ OperatorFresh
    /\ DefaultSettings
    /\ cadModel = NoModel
    /\ lastCall = NoCall
    /\ NoApiHistory
    /\ gmsh_installed = TRUE
    /\ filesOnDisk \in SUBSET Files
    /\ _gmsh_available = "None"
    /\ engineOpen = 0
    /\ import_progress = NewImportProgress
    /\ source_unit = "MILLIMETERS"
    /\ import_to_collection = FALSE

\* what a direct use of import_progress leaves as it is
SessionFrame ==
    UNCHANGED <<backendVars, envVars, operatorVars, hostVars, historyVars, apiVars>>

PriorStart ==
    /\ result = "NONE"
    /\ \E total \in ProgressTotals : import_progress' = start(import_progress, total)
    /\ SessionFrame

PriorUpdate ==
    /\ result = "NONE"
    /\ \E file_index \in ProgressIndices, filename \in ProgressNames,
          phase \in ProgressPhases :
          import_progress' = update(import_progress, file_index, filename, phase)
    /\ SessionFrame

PriorStop ==
    /\ result = "NONE"
    /\ import_progress' = stop(import_progress)
    /\ SessionFrame

PriorCancel ==
    /\ result = "NONE"
    /\ import_progress' = cancel(import_progress)
    /\ SessionFrame

SessionNext ==
    PriorStart \/ PriorUpdate \/ PriorStop \/ PriorCancel
    \/ execute \/ modal_ESC \/ modal_TIMER

SpecSession == SessionInit /\ [][SessionNext]_vars

\* C35: after any sequence of start, update, stop and cancel calls, and throughout
\* a batch that follows them, was_cancelled and is_running are never both true; and
\* once the driver has ended a batch, is_running is false and was_cancelled is true
\* exactly when the outcome is CANCELLED.
C35_CancelledExcludesRunning ==
    /\ ~(import_progress.was_cancelled /\ import_progress.is_running)
    /\ Ended =>
          /\ ~import_progress.is_running
          /\ import_progress.was_cancelled <=> result = "CANCELLED"

C35_Witness ==
    /\ Ended /\ result = "FINISHED"
    /\ Len(stepLog) = 2
    /\ ~import_progress.was_cancelled /\ ~import_progress.is_running
    /\ import_progress.total_files = 2

RECURSIVE ProgressUpdates(_)
\* the import_progress.update calls of the steps of log, in order: the index and
\* the phase of each
ProgressUpdates(log) ==
    IF log = <<>> THEN <<>>
    ELSE [j \in 1..Len(Head(log).phases) |->
             [file_index |-> Head(log).index, phase |-> Head(log).phases[j]]]
         \o ProgressUpdates(Tail(log))

\* progress_percent as read right after the update u of the running batch
PercentAfter(u) ==
    progress_percent(update(start(NewImportProgress, Len(_files_to_process)),
                            u.file_index, "", u.phase))

\* C36 (as claimed): over the successive progress updates the driver makes during
\* a batch (converting, then importing, for each file in index order), the value
\* of progress_percent read after each update never decreases.
C36_PercentNeverDecreases ==
    started =>
        LET ups == ProgressUpdates(stepLog)
        IN \A j \in 1..(Len(ups) - 1) : RatLeq(PercentAfter(ups[j]), PercentAfter(ups[j + 1]))

\* C37 (as claimed): once the per-file step has run on every file of the batch,
\* the batch ends FINISHED, also when ESC arrives after the last file was
\* processed and before the finishing tick.
C37_FinishedAfterLastFile ==
    (Ended /\ ProcessedFiles = _files_to_process) => result = "FINISHED"

\* C37 (amended): once the per-file step has run on every file of the batch, the
\* batch ends FINISHED when no ESC arrives before the finishing tick; an ESC that
\* arrives after the last file was processed and before that tick ends the batch
\* CANCELLED, with import_progress marked cancelled, and the objects imported so
\* far stay in the scene and in the accumulated list.
C37_EscBeforeFinishingTickCancels ==
    (Ended /\ ProcessedFiles = _files_to_process) =>
        /\ result = IF escSeen THEN "CANCELLED" ELSE "FINISHED"
        /\ import_progress.was_cancelled = escSeen
        /\ _all_imported_objects = ConcatNew(stepLog)
        /\ Range(_all_imported_objects) \subseteq objects

C37_Witness ==
    /\ Ended /\ escSeen
    /\ ProcessedFiles = _files_to_process
    /\ Len(stepLog) = 2
    /\ result = "CANCELLED"
    /\ Len(_all_imported_objects) = 2

\* C38: the accumulated object list holds no scene object twice, and the new
\* objects found for different files are pairwise disjoint (stl_import being the
\* only code that adds objects to the scene during a step).
C38_NoObjectTwice ==
    /\ \A a, b \in 1..Len(_all_imported_objects) :
          a # b => _all_imported_objects[a] # _all_imported_objects[b]
    /\ \A i, j \in 1..Len(stepLog) :
          i # j => Range(stepLog[i].new) \cap Range(stepLog[j].new) = {}
    /\ Range(_all_imported_objects) \cap InitialObjects = {}

C38_Witness ==
    /\ Len(stepLog) = 2
    /\ Len(stepLog[1].new) = 2 /\ Len(stepLog[2].new) = 2
    /\ Len(_all_imported_objects) = 4
    /\ Cardinality(Range(_all_imported_objects)) = 4

\* C39 (as claimed): on both terminal paths a target collection that received no
\* object is removed; so after a batch ended FINISHED with every file failed, the
\* collection it created is no longer in bpy.data.collections.
C39_NoEmptyCollectionLeft ==
    (Ended /\ _target_collection # 0 /\ collObjects = {}) =>
        _target_collection \notin collections

\* C39 (amended): a batch that ended CANCELLED has removed its target collection
\* when that collection received no object; a batch that ended FINISHED keeps its
\* target collection, also when every file failed and the collection is empty.
C39_OnlyCancelRemovesEmptyCollection ==
    (Ended /\ _target_collection # 0) =>
        /\ result = "CANCELLED" =>
              (_target_collection \in collections <=> collObjects # {})
        /\ result = "FINISHED" => _target_collection \in collections

C39_Witness ==
    /\ Ended /\ result = "FINISHED"
    /\ _target_collection # 0
    /\ Len(stepLog) = 2
    /\ \A i \in 1..Len(stepLog) : stepLog[i].result = "ERROR"
    /\ _all_imported_objects = <<>> /\ collObjects = {}
    /\ _target_collection \in collections

(***************************************************************************)
(* Two batches: while the operator runs, another instance of it is invoked *)
(* (execute has no test that refuses it). Of the other instance only the   *)
(* calls it makes on the shared import_progress are followed: start in     *)
(* execute, update in its per-file step, stop and cancel in _finish.       *)
(***************************************************************************)
\* input_path.name of the other batch's files
OtherFileName == "other.step"

TwoBatchesInit == SessionInit

\* what a step of the other instance leaves as it is
OtherFrame ==
    UNCHANGED <<gmsh_installed, engineOpen, filesOnDisk, operatorVars, hostVars, historyVars,
                apiVars>>

\* execute of the other instance, on 1..MaxFiles files
OtherExecute ==
    LET av == is_available(_gmsh_available, gmsh_installed)
    IN /\ otherBatch = NoOtherBatch
       /\ av.value
       /\ _gmsh_available' = av.cache
       /\ \E total \in 1..MaxFiles :
             /\ import_progress' = start(import_progress, total)
             /\ otherBatch' = [handler |-> TRUE, total_files |-> total, index |-> 0]
       /\ OtherFrame

\* a TIMER tick of the other instance that processes a file: the file's last
\* update is the converting or the importing one
OtherStep ==
    /\ otherBatch.handler
    /\ otherBatch.index < otherBatch.total_files
    /\ \E phase \in {"converting", "importing"} :
          import_progress' = update(import_progress, otherBatch.index, OtherFileName, phase)
    /\ otherBatch' = [otherBatch EXCEPT !.index = @ + 1]
    /\ UNCHANGED _gmsh_available
    /\ OtherFrame

\* _finish of the other instance: on ESC at any time, on the TIMER tick after its
\* last file otherwise
OtherFinish ==
    /\ otherBatch.handler
    /\ \E cancelled \in BOOLEAN :
          /\ cancelled \/ otherBatch.index >= otherBatch.total_files
          /\ import_progress' = IF cancelled THEN cancel(stop(import_progress))
                                ELSE stop(import_progress)
    /\ otherBatch' = [otherBatch EXCEPT !.handler = FALSE]
    /\ UNCHANGED _gmsh_available
    /\ OtherFrame

TwoBatchesNext ==
    execute \/ modal_ESC \/ modal_TIMER \/ OtherExecute \/ OtherStep \/ OtherFinish

SpecTwoBatches == TwoBatchesInit /\ [][TwoBatchesNext]_vars

\* C40 (as claimed): at most one batch is a running modal handler at a time; a
\* batch that starts while another is running leaves import_progress as the
\* running batch has it; and a batch that finishes or is cancelled while another
\* is still running leaves import_progress marked running.
C40_OneBatchAtATime ==
    /\ [](~(handler /\ otherBatch.handler))
    /\ [][((handler /\ ~otherBatch.handler /\ otherBatch'.handler)
            \/ (otherBatch.handler /\ ~handler /\ handler'))
           => import_progress' = import_progress]_vars
    /\ [][((handler /\ handler' /\ otherBatch.handler /\ ~otherBatch'.handler)
            \/ (otherBatch.handler /\ otherBatch'.handler /\ handler /\ ~handler'))
           => import_progress'.is_running]_vars

====
